---- MODULE Spec2Model ----
(***************************************************************************)
(* A model of the semantic indexing engine of obsidian-blue-notes:        *)
(* EmbeddingCache, ProcessingQueue, ProcessingStats, EmbeddingProcessor   *)
(* (processVault / processFile / processBatch / processQueue), the        *)
(* plugin's commands and vault handlers, the model dropdown of the        *)
(* settings tab and SemanticSearch.                                       *)
(*                                                                         *)
(* JavaScript runs one callback at a time.  An async function runs        *)
(* without interruption up to its next await of real work (a file read,   *)
(* a provider call, a timer); every action below is one such stretch.     *)
(***************************************************************************)
EXTENDS Integers, Sequences, FiniteSets, TLC

\* ------------------------------------------------------------------ bounds

\* documents of the vault: 1..MaxFiles
MaxFiles == 2
\* document texts: 1..MaxContent (see countWords and chunk below)
MaxContent == 2
\* events from outside in one run: a document is modified or deleted, the
\* cache is cleared, the model is switched
MaxEvents == 1
\* slots for operations in flight
MaxTasks == 3
\* commands (process current file, find similar) in flight at the same time
MaxCalls == 1
\* pending setTimeout callbacks that are told apart
MaxTimers == 2
\* settings.processing.batchSize
BatchSize == 1
\* the largest settings.processing.batchSize of WideSpec
WideBatch == 2
\* file.stat.mtime of QueueApiSpec: 0..MaxTime
MaxTime == 2
\* options.limit of search and findSimilar: 0..MaxLimit
MaxLimit == 2
\* items handed to BatchProcessor.createBatches: 0..MaxItems
MaxItems == 51
\* lines of a note handed to NoteChunker.chunk: 1..MaxLines
MaxLines == 5
\* words of a sentence of a note
SentenceWords == 20

\* ------------------------------------------------------- program constants

\* settings.processing.minWordCount
MinWordCount == 15
\* ProcessingStats.hasEnoughSamples(minSamples = 5)
MinSamples == 5
\* createAdaptiveBatches: Math.max(5, ...)
AdaptiveMin == 5
\* createAdaptiveBatches: Math.min(50, ...)
AdaptiveMax == 50
\* BatchProcessor: `targetBatchTimeMs: 10000`
TargetBatchTimeMs == 10000

Paths == 1..MaxFiles
Contents == 1..MaxContent
Models == {"multilingual-e5-small", "all-MiniLM-L6-v2"}
None == [none |-> TRUE]

\* ContentUtils.countWords on the texts of the model: text c has 10 * c
\* words, so that text 1 is below minWordCount and the others are not.
countWords(c) == 10 * c

\* NoteChunker.chunk on the texts of the model, as the list of chunk numbers:
\* never empty; text c splits into c chunks.
chunk(c) == [k \in 1..c |-> k]

\* EmbeddingCache.computeHash: sha256 of the text, injective on the texts of
\* the model.
computeHash(c) == <<"sha256", c>>

\* provider.embed under the active model: the vector of chunk k of text c.
embed(m, c, k) == [model |-> m, text |-> c, chunkId |-> k]

Min(a, b) == IF a < b THEN a ELSE b
Max(a, b) == IF a > b THEN a ELSE b
Range(s) == {s[i] : i \in 1..Len(s)}

\* ---------------------------------------------------------- EmbeddingCache
\* A cache object is [embeddings, isDirty, disk]: the in-memory map, the dirty
\* flag and the content of the cache file.

createEmptyCache == [p \in Paths |-> None]

\* The content of the cache file as initialize() meets it: text that
\* JSON.parse rejects, or the parsed value, an object given by its fields.
\* An entry of its embeddings is a full ChunkedEmbeddingEntry, or lacks
\* `chunks`, or has chunks and nothing else, the chunks without a vector.
FileEntries ==
    {None,
     [fileHash |-> computeHash(1), metadata |-> [wordCount |-> 0],
      chunks |-> <<embed("multilingual-e5-small", 1, 1)>>],
     [fileHash |-> computeHash(1)],
     [chunks |-> <<[chunkId |-> 1]>>]}

CacheFiles ==
    {[parse |-> FALSE]}
    \cup {[parse |-> TRUE, value |-> [version |-> "1.0.0"]]}
    \cup {[parse |-> TRUE, value |-> [version |-> "1.0.0", embeddings |-> e]] :
            e \in [Paths -> FileEntries]}

\* the structure CacheData and ChunkedEmbeddingEntry declare
WellFormed(file) ==
    /\ file.parse
    /\ "embeddings" \in DOMAIN file.value
    /\ \A p \in Paths :
         LET e == file.value.embeddings[p] IN
         e # None =>
            /\ DOMAIN e = {"fileHash", "metadata", "chunks"}
            /\ \A k \in 1..Len(e.chunks) :
                  DOMAIN e.chunks[k] = {"model", "text", "chunkId"}

\* initialize(), on a new cache object c: without a file c stays empty; the
\* parsed value becomes the cache unless JSON.parse throws or the count of
\* the chunks does (no `embeddings` to enumerate, an entry without `chunks`),
\* which the catch block turns into an empty cache
initialize(c, exists, file) ==
    IF ~exists THEN c
    ELSE IF ~file.parse THEN [c EXCEPT !.embeddings = createEmptyCache]
    ELSE IF "embeddings" \notin DOMAIN file.value
    THEN [c EXCEPT !.embeddings = createEmptyCache]
    ELSE IF \E p \in Paths : /\ file.value.embeddings[p] # None
                              /\ "chunks" \notin DOMAIN file.value.embeddings[p]
    THEN [c EXCEPT !.embeddings = createEmptyCache]
    ELSE [c EXCEPT !.embeddings = file.value.embeddings]

\* get(filePath, contentHash) without the comparison of the hashes
CacheGetAnyHash(c, p, h) ==
    IF c.embeddings[p] = None THEN None
    ELSE [chunks |-> c.embeddings[p].chunks]

\* get(filePath, contentHash)
CacheGet(c, p, h) ==
    IF c.embeddings[p] = None THEN None
    ELSE IF c.embeddings[p].fileHash # h THEN None
    ELSE [chunks |-> c.embeddings[p].chunks]

\* has(filePath, contentHash)
CacheHas(c, p, h) ==
    c.embeddings[p] # None /\ c.embeddings[p].fileHash = h

\* set(filePath, chunks, contentHash, metadata) that stores the hash of the
\* empty text in place of contentHash
CacheSetNoHash(c, p, chunks, h, meta) ==
    [c EXCEPT !.embeddings[p] = [fileHash |-> computeHash(0), metadata |-> meta, chunks |-> chunks],
              !.isDirty = TRUE]

\* set(filePath, chunks, contentHash, metadata)
CacheSet(c, p, chunks, h, meta) ==
    [c EXCEPT !.embeddings[p] = [fileHash |-> h, metadata |-> meta, chunks |-> chunks],
              !.isDirty = TRUE]

\* remove(filePath) that does not mark the cache dirty
CacheRemoveKeepsClean(c, p) ==
    IF c.embeddings[p] # None
    THEN [c EXCEPT !.embeddings[p] = None]
    ELSE c

\* remove(filePath)
CacheRemove(c, p) ==
    IF c.embeddings[p] # None
    THEN [c EXCEPT !.embeddings[p] = None, !.isDirty = TRUE]
    ELSE c

\* clear() that does not mark the cache dirty
CacheClearKeepsClean(c) == [c EXCEPT !.embeddings = createEmptyCache]

\* clear()
CacheClear(c) == [c EXCEPT !.embeddings = createEmptyCache, !.isDirty = TRUE]

\* save() that clears the dirty flag before it writes
CacheSaveClearsFirst(c, ok) ==
    IF ~c.isDirty THEN c
    ELSE IF ok THEN [c EXCEPT !.disk = c.embeddings, !.isDirty = FALSE]
    ELSE [c EXCEPT !.isDirty = FALSE]

\* save(): ok tells whether writeFileSync succeeds, should save() write
CacheSave(c, ok) ==
    IF ~c.isDirty THEN c
    ELSE IF ok THEN [c EXCEPT !.disk = c.embeddings, !.isDirty = FALSE]
    ELSE c

\* save() rethrows the write error
CacheSaveThrows(c, ok) == c.isDirty /\ ~ok

\* getAllChunksFlattened(): one item per chunk of every entry
getAllChunksFlattened(c) ==
    {[filePath |-> p, fileHash |-> c.embeddings[p].fileHash,
      vector |-> c.embeddings[p].chunks[k]] :
        <<p, k>> \in {x \in Paths \X (1..MaxContent) :
                      /\ c.embeddings[x[1]] # None
                      /\ x[2] <= Len(c.embeddings[x[1]].chunks)}}

\* ------------------------------------------------------------ BatchProcessor

\* createFixedBatches(items) that pushes full slices only
RECURSIVE createFixedBatchesFullOnly(_, _)
createFixedBatchesFullOnly(items, size) ==
    IF Len(items) < size THEN <<>>
    ELSE <<SubSeq(items, 1, size)>>
         \o createFixedBatchesFullOnly(SubSeq(items, size + 1, Len(items)), size)

\* createFixedBatches(items): slices of batchSize items, in order
RECURSIVE createFixedBatches(_, _)
createFixedBatches(items, size) ==
    IF Len(items) = 0 THEN <<>>
    ELSE <<SubSeq(items, 1, Min(size, Len(items)))>>
         \o createFixedBatches(SubSeq(items, Min(size, Len(items)) + 1, Len(items)), size)

\* createBatches(items, avgProcessingTime) as processVault calls it: the
\* average is passed only when stats.hasEnoughSamples().  The adaptive size is
\* max(5, min(50, floor(targetBatchTimeMs / avg))), which lies in 5..50; the
\* wall-clock average is not part of the state, so floor(target / avg) is the
\* parameter adaptive, drawn by the caller (0: the average is 0, `!avg`).
createBatches(items, size, samples, adaptive) ==
    IF samples < MinSamples \/ adaptive = 0 THEN createFixedBatches(items, size)
    ELSE createFixedBatches(items, Max(AdaptiveMin, Min(AdaptiveMax, adaptive)))

\* An optional number (`avgProcessingTime?: number`) is <<>> when it is
\* undefined and <<n>> when it is the number n, in milliseconds.

\* createAdaptiveBatches(items, avgProcessingTime), the average not 0
createAdaptiveBatches(items, avgProcessingTime) ==
    LET currentBatchSize ==
            Max(5, Min(50, TargetBatchTimeMs \div avgProcessingTime))
    IN createFixedBatches(items, currentBatchSize)

\* BatchProcessor.createBatches that never adapts
createBatchesAlwaysFixed(items, config, avgProcessingTime) ==
    createFixedBatches(items, config.batchSize)

\* BatchProcessor.createBatches(items, avgProcessingTime) under config:
\* `!avgProcessingTime` holds of undefined and of 0
BatchProcessorCreateBatches(items, config, avgProcessingTime) ==
    IF ~config.adaptiveBatching \/ avgProcessingTime = <<>> \/ avgProcessingTime[1] = 0
    THEN createFixedBatches(items, config.batchSize)
    ELSE createAdaptiveBatches(items, avgProcessingTime[1])

\* processVault: the average goes to createBatches when the statistics have
\* enough samples, else undefined
vaultBatches(files, config, samplesCount, avg) ==
    LET avgTime == IF samplesCount >= MinSamples THEN <<avg>> ELSE <<>>
    IN BatchProcessorCreateBatches(files, config, avgTime)

\* ----------------------------------------------------------- ProcessingQueue
\* A queue object is [queue, lastCheckedModTimes, isProcessing, observed];
\* observed is history, not a field of the code: the files that a
\* checkForModifications call has seen.

\* add(file) that does not look for the file in the queue
QueueAddAlways(q, f) == [q EXCEPT !.queue = Append(q.queue, f)]


\* add(file)
QueueAdd(q, f) ==
    IF f \in Range(q.queue) THEN q ELSE [q EXCEPT !.queue = Append(q.queue, f)]

\* remove(count) that returns the files at the back
QueueTakeLast(q, count) ==
    SubSeq(q.queue, Len(q.queue) - Min(count, Len(q.queue)) + 1, Len(q.queue))

\* remove(count): the files spliced off the front
QueueTake(q, count) == SubSeq(q.queue, 1, Min(count, Len(q.queue)))

\* remove(count): the queue that is left
QueueRemove(q, count) ==
    [q EXCEPT !.queue = SubSeq(q.queue, Min(count, Len(q.queue)) + 1, Len(q.queue))]

\* isEmpty()
QueueIsEmpty(q) == Len(q.queue) = 0

\* setProcessing(processing)
setProcessing(q, b) == [q EXCEPT !.isProcessing = b]

\* checkForModifications(allFiles): is file f reported?  (0 stands for "no
\* entry": `!lastChecked` is true for undefined and for 0 alike)
IsModified(q, mt, f) ==
    /\ (q.lastCheckedModTimes[f] = 0 \/ mt[f] > q.lastCheckedModTimes[f])
    /\ q.lastCheckedModTimes[f] # 0

\* checkForModifications(allFiles): the map after the call
RecordModTimes(q, mt, files) ==
    [q EXCEPT !.observed = q.observed \cup files,
              !.lastCheckedModTimes =
        [f \in Paths |->
            IF /\ f \in files
               /\ (q.lastCheckedModTimes[f] = 0 \/ mt[f] > q.lastCheckedModTimes[f])
            THEN mt[f] ELSE q.lastCheckedModTimes[f]]]

\* ------------------------------------------------------------------- state

VARIABLES
    vault,      \* the documents: [content, exists] per path
    mtime,      \* file.stat.mtime per path
    provider,   \* [ready, model]: providerManager.getProvider() and its model
    cache,      \* the EmbeddingCache object
    pq,         \* the ProcessingQueue object
    samples,    \* ProcessingStats.samplesCount
    timers,     \* pending setTimeout(() => this.processQueue(), 100)
    tasks,      \* the operations in flight, suspended at an await
    notice,     \* what the last step has shown (a Notice) or returned, if anything
    events,     \* events from outside so far
    settings,   \* the plugin's settings: [batchSize]
    lastSet     \* CacheSpec's history: per path, the chunks and the hash of the
                \* last set that no remove or clear has followed

vars == <<vault, mtime, provider, cache, pq, samples, timers, tasks, notice,
          events, settings, lastSet>>

\* What the engine's code reads and writes; an operation is a function from
\* world to world.
World == [provider |-> provider, cache |-> cache, pq |-> pq, samples |-> samples,
          timers |-> timers, tasks |-> tasks, notice |-> None, settings |-> settings,
          vault |-> vault, scan |-> None]

Commit(w) ==
    /\ UNCHANGED <<lastSet, settings>>
    /\ cache' = w.cache
    /\ pq' = w.pq
    /\ samples' = w.samples
    /\ timers' = w.timers
    /\ tasks' = w.tasks
    /\ notice' = w.notice

IdleTask ==
    [kind |-> "none", pc |-> "none", file |-> 0, skip |-> FALSE, text |-> 0,
     vecs |-> <<>>, all |-> <<>>, files |-> <<>>, batches |-> <<>>, b |-> 0,
     k |-> 0, processed |-> 0, cached |-> 0, failed |-> 0, attempted |-> <<>>,
     hash |-> None, saves |-> 0, threshold |-> 0, limit |-> 0]

Busy(ts) == {i \in 1..MaxTasks : ts[i].kind # "none"}
HasFree(ts) == Busy(ts) # 1..MaxTasks
FreeSlot(ts) == CHOOSE i \in 1..MaxTasks :
                    /\ ts[i].kind = "none"
                    /\ \A j \in 1..(i - 1) : ts[j].kind # "none"

\* the existing documents in path order: vault.getMarkdownFiles()
RECURSIVE ListFrom(_, _)
ListFrom(v, p) ==
    IF p > MaxFiles THEN <<>>
    ELSE (IF v[p].exists THEN <<p>> ELSE <<>>) \o ListFrom(v, p + 1)
getMarkdownFiles(v) == ListFrom(v, 1)

\* vault.cachedRead(file).  For a document that has been deleted the
\* repository does not determine the outcome: the host rejects, or it serves
\* its cached copy or the result of a read already in flight.  0 stands for
\* the rejection.
ReadOutcomes(v, p) == IF v[p].exists THEN {v[p].content} ELSE {v[p].content, 0}

\* ------------------------------------------------- EmbeddingProcessor.processFile
\* processFile suspends at extractText ("text"), at every provider.embed
\* ("embed") and at extractMetadata ("meta").  Each operator below is the code
\* from one of these awaits to the next, as [res, w]: res is "suspend", or
\* what processFile returns ("new" for true, "cached" for false) or "throw".

\* processFile(file, skip) up to `await this.fileProcessor.extractText(file)`
processFileCall(w, i, f, skip) ==
    IF ~w.provider.ready THEN [res |-> "throw", w |-> w]
    ELSE [res |-> "suspend",
          w |-> [w EXCEPT !.tasks[i].pc = "text", !.tasks[i].file = f,
                          !.tasks[i].skip = skip, !.tasks[i].text = 0,
                          !.tasks[i].vecs = <<>>,
                          !.tasks[i].attempted = Append(@, f)]]

\* processFile, from the text read on, without the check of the word count
processFileTextNoMinWords(w, i, r) ==
    LET t == w.tasks[i] IN
    IF r = 0 THEN [res |-> "throw", w |-> w]
    ELSE IF CacheGet(w.cache, t.file, computeHash(r)) # None
    THEN [res |-> "cached", w |-> w]
    ELSE [res |-> "suspend",
          w |-> [w EXCEPT !.tasks[i].pc = "embed", !.tasks[i].text = r,
                          !.tasks[i].vecs = <<>>]]

\* from the text read (r, 0 when it rejects) to the first provider.embed
processFileText(w, i, r) ==
    LET t == w.tasks[i] IN
    IF r = 0 THEN [res |-> "throw", w |-> w]
    ELSE IF CacheGet(w.cache, t.file, computeHash(r)) # None
    THEN [res |-> "cached", w |-> w]
    ELSE IF ~t.skip /\ countWords(r) < MinWordCount
    THEN [res |-> "throw", w |-> w]
    ELSE [res |-> "suspend",
          w |-> [w EXCEPT !.tasks[i].pc = "embed", !.tasks[i].text = r,
                          !.tasks[i].vecs = <<>>]]

\* processFile that stores the vectors it has when provider.embed rejects
processFileEmbedStoresPartial(w, i, good) ==
    LET t == w.tasks[i]
        chunks == chunk(t.text)
        vecs == Append(t.vecs, embed(w.provider.model, t.text, chunks[Len(t.vecs) + 1]))
    IN
    IF ~good
    THEN [res |-> "throw",
          w |-> [w EXCEPT !.cache = CacheSet(w.cache, t.file, t.vecs,
                                             computeHash(t.text), [wordCount |-> 0])]]
    ELSE IF Len(vecs) < Len(chunks)
    THEN [res |-> "suspend", w |-> [w EXCEPT !.tasks[i].vecs = vecs]]
    ELSE [res |-> "suspend",
          w |-> [w EXCEPT !.tasks[i].vecs = vecs, !.tasks[i].pc = "meta",
                          !.samples = w.samples + 1]]

\* from one provider.embed (good: it resolved) to the next await
processFileEmbed(w, i, good) ==
    LET t == w.tasks[i]
        chunks == chunk(t.text)
        vecs == Append(t.vecs, embed(w.provider.model, t.text, chunks[Len(t.vecs) + 1]))
    IN
    IF ~good THEN [res |-> "throw", w |-> w]
    ELSE IF Len(vecs) < Len(chunks)
    THEN [res |-> "suspend", w |-> [w EXCEPT !.tasks[i].vecs = vecs]]
    ELSE [res |-> "suspend",
          w |-> [w EXCEPT !.tasks[i].vecs = vecs, !.tasks[i].pc = "meta",
                          !.samples = w.samples + 1]]

\* from the metadata read (r, 0 when it rejects) to the return
processFileMeta(w, i, r) ==
    LET t == w.tasks[i] IN
    IF r = 0 THEN [res |-> "throw", w |-> w]
    ELSE [res |-> "new",
          w |-> [w EXCEPT !.cache = CacheSet(w.cache, t.file, t.vecs, computeHash(t.text),
                                             [wordCount |-> countWords(r)])]]

\* --------------------------------------------------------------- NoteChunker
\* A note is the list of its lines, content.split('\n'); the empty note is
\* one blank line.  A line is blank, or a heading (its markers, whitespace
\* and a text of one word, given by its characters), or text: sentences that
\* each end with a full stop, given by their numbers of words.  Line numbers
\* are those of the code, from 0: line n is ls[n + 1].
Blank == [kind |-> "blank"]
HeadingLine(level, text) == [kind |-> "heading", level |-> level, text |-> text]
TextLine(sentences) == [kind |-> "text", sentences |-> sentences]

RECURSIVE SumSeq(_)
SumSeq(s) == IF s = <<>> THEN 0 ELSE Head(s) + SumSeq(Tail(s))

\* countWords of one line: the markers of a heading are a word
lineWords(l) ==
    CASE l.kind = "blank" -> 0
      [] l.kind = "heading" -> 2
      [] OTHER -> SumSeq(l.sentences)

\* countWords(text) of markdown-parser.ts, on lines
RECURSIVE countWordsIn(_)
countWordsIn(ls) == IF ls = <<>> THEN 0 ELSE lineWords(Head(ls)) + countWordsIn(Tail(ls))

\* String.trim on lines: the blank lines at both ends go
RECURSIVE trim(_)
trim(ls) ==
    IF ls = <<>> THEN <<>>
    ELSE IF Head(ls).kind = "blank" THEN trim(Tail(ls))
    ELSE IF ls[Len(ls)].kind = "blank" THEN trim(SubSeq(ls, 1, Len(ls) - 1))
    ELSE ls

\* parseHeadings(content): the heading lines in order
RECURSIVE headingsFrom(_, _)
headingsFrom(ls, n) ==
    IF n > Len(ls) THEN <<>>
    ELSE (IF ls[n].kind = "heading"
          THEN <<[level |-> ls[n].level, text |-> ls[n].text, line |-> n - 1,
                  raw |-> ls[n]]>>
          ELSE <<>>) \o headingsFrom(ls, n + 1)
parseHeadings(ls) == headingsFrom(ls, 1)

\* the content lines of a section: lines from..to, up to the first line that
\* looks like a heading, of any level
RECURSIVE contentLinesFrom(_, _, _)
contentLinesFrom(ls, from, to) ==
    IF from > to THEN <<>>
    ELSE IF ls[from + 1].kind = "heading" THEN <<>>
    ELSE <<ls[from + 1]>> \o contentLinesFrom(ls, from + 1, to)

\* buildSectionTree(lines, headings, maxHeadingLevel), headings not empty:
\* the preamble, if the first heading kept is not on line 0, and a section
\* for every heading of a level up to maxHeadingLevel; no section has
\* subsections
buildSectionTree(ls, headings, maxHeadingLevel) ==
    LET filteredHeadings == SelectSeq(headings, LAMBDA h : h.level <= maxHeadingLevel)
        n == Len(filteredHeadings)
        preamble ==
            IF n > 0 /\ filteredHeadings[1].line > 0
            THEN <<[heading |-> None,
                    contentLines |-> SubSeq(ls, 1, filteredHeadings[1].line),
                    startLine |-> 0, endLine |-> filteredHeadings[1].line - 1]>>
            ELSE <<>>
    IN preamble \o
       [i \in 1..n |->
          LET startLine == filteredHeadings[i].line
              endLine == IF i < n THEN filteredHeadings[i + 1].line - 1 ELSE Len(ls) - 1
          IN [heading |-> filteredHeadings[i],
              contentLines |-> contentLinesFrom(ls, startLine + 1, endLine),
              startLine |-> startLine, endLine |-> endLine]]

\* splitIntoParagraphs(content): the runs of lines between blank lines, each
\* by its number of words
RECURSIVE paragraphsFrom(_, _)
paragraphsFrom(ls, current) ==
    IF ls = <<>> THEN (IF current > 0 THEN <<current>> ELSE <<>>)
    ELSE IF Head(ls).kind = "blank"
    THEN (IF current > 0 THEN <<current>> ELSE <<>>) \o paragraphsFrom(Tail(ls), 0)
    ELSE paragraphsFrom(Tail(ls), current + lineWords(Head(ls)))
splitIntoParagraphs(ls) == paragraphsFrom(ls, 0)

\* the characters of [.!?]
Terminators == {".", "!", "?"}

\* splitIntoSentences(content): the pieces between the runs of [.!?] that
\* whitespace follows, each by its number of words; a heading line whose text
\* ends with none of them runs into the sentence after it
RECURSIVE sentencesFrom(_, _)
sentencesFrom(ls, pending) ==
    IF ls = <<>> THEN (IF pending > 0 THEN <<pending>> ELSE <<>>)
    ELSE LET l == Head(ls) IN
         IF l.kind = "blank" THEN sentencesFrom(Tail(ls), pending)
         ELSE IF l.kind = "heading"
         THEN (IF l.text[Len(l.text)] \in Terminators
               THEN <<pending + lineWords(l)>> \o sentencesFrom(Tail(ls), 0)
               ELSE sentencesFrom(Tail(ls), pending + lineWords(l)))
         ELSE <<pending + Head(l.sentences)>> \o Tail(l.sentences)
              \o sentencesFrom(Tail(ls), 0)
splitIntoSentences(ls) == sentencesFrom(ls, 0)

\* buildHeadingHierarchy(headings, currentHeading): the raw lines of the
\* headings above the current one, each of a lower level than the one found
\* before, and the current one
RECURSIVE hierarchyFrom(_, _, _)
hierarchyFrom(headings, i, currentLevel) ==
    IF i = 0 THEN <<>>
    ELSE IF headings[i].level < currentLevel
    THEN hierarchyFrom(headings, i - 1, headings[i].level) \o <<headings[i].raw>>
    ELSE hierarchyFrom(headings, i - 1, currentLevel)
buildHeadingHierarchy(headings, currentHeading) ==
    LET currentIndex == CHOOSE i \in 1..Len(headings) : headings[i] = currentHeading
    IN hierarchyFrom(headings, currentIndex, currentHeading.level)
       \o <<currentHeading.raw>>

\* The characters [a-z0-9] and String.toLowerCase on the characters of the
\* model
LowerAlnum == {"a", "b", "c", "h", "k", "n", "u", "0", "1", "2", "3", "4", "5",
               "6", "7", "8", "9"}
toLowerCase(ch) == CASE ch = "A" -> "a" [] ch = "B" -> "b" [] OTHER -> ch

\* `chunk-${n}`
chunkN(n) == <<"c", "h", "u", "n", "k", "-", ToString(n)>>

\* .replace(/[^a-z0-9]+/g, '-'): every run of other characters becomes one
\* hyphen
RECURSIVE replaceRuns(_, _)
replaceRuns(t, inRun) ==
    IF t = <<>> THEN <<>>
    ELSE IF Head(t) \in LowerAlnum THEN <<Head(t)>> \o replaceRuns(Tail(t), FALSE)
    ELSE (IF inRun THEN <<>> ELSE <<"-">>) \o replaceRuns(Tail(t), TRUE)

\* .replace(/^-+|-+$/g, '')
RECURSIVE stripHyphens(_)
stripHyphens(t) ==
    IF t = <<>> THEN <<>>
    ELSE IF Head(t) = "-" THEN stripHyphens(Tail(t))
    ELSE IF t[Len(t)] = "-" THEN stripHyphens(SubSeq(t, 1, Len(t) - 1))
    ELSE t

\* createChunkId(headingText)
createChunkId(headingText) ==
    LET id == stripHyphens(replaceRuns([i \in 1..Len(headingText) |->
                                          toLowerCase(headingText[i])], FALSE))
    IN SubSeq(id, 1, Min(50, Len(id)))

\* The content of a chunk is given by its lines when the chunk is a section or
\* the whole note, and by the numbers of words of its parts when it is a
\* group of paragraphs or sentences.

\* createChunkFromParts(parts, headings, chunkIndex)
createChunkFromParts(parts, headings, chunkIndex) ==
    [chunkId |-> chunkN(chunkIndex), lines |-> <<>>, parts |-> parts,
     headings |-> headings, startLine |-> 0, endLine |-> 0,
     wordCount |-> SumSeq(parts)]

\* chunkByParagraphs: the loop, then the last group
RECURSIVE paragraphLoop(_, _, _, _, _)
paragraphLoop(paragraphs, chunks, currentChunk, headings, maxWords) ==
    IF paragraphs = <<>>
    THEN IF Len(currentChunk) > 0
         THEN Append(chunks, createChunkFromParts(currentChunk, headings, Len(chunks)))
         ELSE chunks
    ELSE LET paragraphWords == Head(paragraphs) IN
         IF SumSeq(currentChunk) + paragraphWords > maxWords /\ Len(currentChunk) > 0
         THEN paragraphLoop(Tail(paragraphs),
                            Append(chunks,
                                   createChunkFromParts(currentChunk, headings, Len(chunks))),
                            <<paragraphWords>>, headings, maxWords)
         ELSE paragraphLoop(Tail(paragraphs), chunks,
                            Append(currentChunk, paragraphWords), headings, maxWords)
chunkByParagraphs(paragraphs, headings, maxWords) ==
    paragraphLoop(paragraphs, <<>>, <<>>, headings, maxWords)

\* `const overlapWords = 50`
OverlapWords == 50

\* getLastNWords(parts, n): the parts as they are when they have no more than
\* n words, else one part of their last n words
getLastNWords(parts, n) == IF SumSeq(parts) <= n THEN parts ELSE <<n>>

\* chunkBySentences: the loop, then the last group
RECURSIVE sentenceLoop(_, _, _, _, _, _)
sentenceLoop(sentences, chunks, currentChunk, previousChunkEnd, headings, maxWords) ==
    IF sentences = <<>>
    THEN IF Len(currentChunk) > Len(previousChunkEnd)
         THEN Append(chunks, createChunkFromParts(currentChunk, headings, Len(chunks)))
         ELSE chunks
    ELSE LET sentenceWords == Head(sentences) IN
         IF SumSeq(currentChunk) + sentenceWords > maxWords /\ Len(currentChunk) > 0
         THEN LET end == getLastNWords(currentChunk, OverlapWords) IN
              sentenceLoop(Tail(sentences),
                           Append(chunks,
                                  createChunkFromParts(currentChunk, headings, Len(chunks))),
                           Append(end, sentenceWords), end, headings, maxWords)
         ELSE sentenceLoop(Tail(sentences), chunks, Append(currentChunk, sentenceWords),
                           previousChunkEnd, headings, maxWords)
chunkBySentences(sentences, headings, maxWords) ==
    sentenceLoop(sentences, <<>>, <<>>, <<>>, headings, maxWords)

\* splitLargeSection(section, headingHierarchy)
splitLargeSection(section, headingHierarchy, maxWords) ==
    LET paragraphs == splitIntoParagraphs(section.contentLines) IN
    IF Len(paragraphs) > 1
    THEN chunkByParagraphs(paragraphs, headingHierarchy, maxWords)
    ELSE chunkBySentences(splitIntoSentences(section.contentLines), headingHierarchy,
                          maxWords)

\* processSectionRecursive(section, allHeadings, allLines) as chunkByHeadings
\* calls it, with a new chunkCounter of 0 for the section; buildSectionTree
\* gives no section a subsection, which leaves the second branch
processSectionRecursive(section, allHeadings, options) ==
    LET sectionContent == trim(section.contentLines)
        sectionWords == countWordsIn(sectionContent)
        headingHierarchy == IF section.heading # None
                            THEN buildHeadingHierarchy(allHeadings, section.heading)
                            ELSE <<>>
    IN
    IF sectionWords = 0 THEN <<>>
    ELSE IF sectionWords > options.maxWords
    THEN splitLargeSection(section, headingHierarchy, options.maxWords)
    ELSE <<[chunkId |-> IF section.heading # None
                        THEN createChunkId(section.heading.text)
                        ELSE chunkN(0),
            lines |-> sectionContent, parts |-> <<>>, headings |-> headingHierarchy,
            startLine |-> section.startLine, endLine |-> section.endLine,
            wordCount |-> sectionWords]>>

\* chunkByHeadings(lines, headings)
RECURSIVE sectionChunks(_, _, _)
sectionChunks(sections, headings, options) ==
    IF sections = <<>> THEN <<>>
    ELSE processSectionRecursive(Head(sections), headings, options)
         \o sectionChunks(Tail(sections), headings, options)
chunkByHeadings(ls, headings, options) ==
    sectionChunks(buildSectionTree(ls, headings, options.maxHeadingLevel), headings,
                  options)

\* createSingleChunk(content, lines)
createSingleChunk(ls) ==
    <<[chunkId |-> chunkN(0), lines |-> trim(ls), parts |-> <<>>, headings |-> <<>>,
       startLine |-> 0, endLine |-> Len(ls) - 1, wordCount |-> countWordsIn(ls)]>>

\* the branches of NoteChunker.chunk without the test against minWords
strategyNoMinWords(ls, options) ==
    IF options.splitAtHeadings /\ Len(parseHeadings(ls)) > 0 THEN "headings"
    ELSE IF Len(splitIntoParagraphs(ls)) >= 3 THEN "paragraphs"
    ELSE IF Len(splitIntoSentences(ls)) >= 3 THEN "sentences"
    ELSE "fallback"

\* the branch NoteChunker.chunk takes
strategy(ls, options) ==
    IF countWordsIn(ls) < options.minWords THEN "single"
    ELSE IF options.splitAtHeadings /\ Len(parseHeadings(ls)) > 0 THEN "headings"
    ELSE IF Len(splitIntoParagraphs(ls)) >= 3 THEN "paragraphs"
    ELSE IF Len(splitIntoSentences(ls)) >= 3 THEN "sentences"
    ELSE "fallback"

\* NoteChunker.chunk(content) under the options of the chunker
chunkNote(ls, options) ==
    CASE strategy(ls, options) = "headings" ->
            chunkByHeadings(ls, parseHeadings(ls), options)
      [] strategy(ls, options) = "paragraphs" ->
            chunkByParagraphs(splitIntoParagraphs(ls), <<>>, options.maxWords)
      [] strategy(ls, options) = "sentences" ->
            chunkBySentences(splitIntoSentences(ls), <<>>, options.maxWords)
      [] OTHER -> createSingleChunk(ls)

\* ------------------------------------------------------------ FileProcessor
\* cleanMarkdown(content) on the lines of a note (which hold no frontmatter,
\* code or links): every # goes, the markers of a heading with it, and every
\* run of whitespace, line breaks included, becomes one space, so that what
\* is left is one line of text, or the empty text.  Its sentences, by their
\* numbers of words: a heading is the one word of its text, and runs into the
\* sentence after it unless its text ends with one of [.!?].
RECURSIVE cleanSentencesFrom(_, _)
cleanSentencesFrom(ls, pending) ==
    IF ls = <<>> THEN (IF pending > 0 THEN <<pending>> ELSE <<>>)
    ELSE LET l == Head(ls) IN
         IF l.kind = "blank" THEN cleanSentencesFrom(Tail(ls), pending)
         ELSE IF l.kind = "heading"
         THEN (IF l.text[Len(l.text)] \in Terminators
               THEN <<pending + 1>> \o cleanSentencesFrom(Tail(ls), 0)
               ELSE cleanSentencesFrom(Tail(ls), pending + 1))
         ELSE <<pending + Head(l.sentences)>> \o Tail(l.sentences)
              \o cleanSentencesFrom(Tail(ls), 0)

cleanMarkdown(ls) ==
    IF cleanSentencesFrom(ls, 0) = <<>> THEN <<Blank>>
    ELSE <<TextLine(cleanSentencesFrom(ls, 0))>>

\* extractText(file), given what vault.cachedRead resolves with
extractText(content) == cleanMarkdown(content)

\* new NoteChunker(): DEFAULT_CHUNKING_OPTIONS, the two word limits on the
\* scale of the notes of the model (a sentence has SentenceWords words)
DefaultChunkingOptions ==
    [maxWords |-> 60, minWords |-> 50, splitAtHeadings |-> TRUE, maxHeadingLevel |-> 3]

\* ------------------------------------------------------------ SemanticSearch
\* Similarities are in hundredths.  cosineSimilarity of the query vector and
\* a cached vector depends on the numbers the provider's model has produced,
\* which the repository does not determine: a scan is given, from outside,
\* the similarity of chunk k of document p as sim[p][k], and the order in
\* which Object.entries walks the documents of the cache (their insertion
\* order, which the cache of the model does not keep).
Scores == {20, 50, 90}
\* options.threshold: the default of findSimilar (0.3) and of search (0.5)
Thresholds == {30, 50}
Limits == 0..MaxLimit
ScanOrders == {o \in [1..MaxFiles -> Paths] : \A a, b \in 1..MaxFiles : o[a] = o[b] => a = b}
ScanInputs == {[sim |-> s, order |-> o] :
                 s \in [Paths -> [1..MaxContent -> Scores]], o \in ScanOrders}

\* getAllChunksFlattened() as the list a scan walks: document by document in
\* the order of the cache, the chunks of a document in their order
RECURSIVE getAllChunksList(_, _)
getAllChunksList(c, order) ==
    IF order = <<>> THEN <<>>
    ELSE LET p == Head(order)
             e == c.embeddings[p]
         IN (IF e = None THEN <<>>
             ELSE [k \in 1..Len(e.chunks) |->
                     [filePath |-> p, fileHash |-> e.fileHash,
                      vector |-> e.chunks[k], k |-> k]])
            \o getAllChunksList(c, Tail(order))

\* the loop of search(): an item below the threshold is dropped, so is one
\* whose path is not a document of the vault
RECURSIVE searchScan(_, _, _, _)
searchScan(all, sim, threshold, v) ==
    IF all = <<>> THEN <<>>
    ELSE LET item == Head(all)
             similarity == sim[item.filePath][item.k]
         IN (IF similarity < threshold THEN <<>>
             ELSE IF v[item.filePath].exists
             THEN <<[path |-> item.filePath, chunkId |-> item.vector.chunkId,
                     similarity |-> similarity]>>
             ELSE <<>>)
            \o searchScan(Tail(all), sim, threshold, v)

\* The name of a document's path, by its characters: one document is in the
\* folder a, the others in the folder ab.
filePath(p) == IF p = 1 THEN <<"a", "/", "n">> ELSE <<"a", "b", "/", "n">>

\* String.prototype.startsWith
startsWith(str, prefix) ==
    /\ Len(prefix) <= Len(str)
    /\ SubSeq(str, 1, Len(prefix)) = prefix

\* the loop of search() that does not look at options.tags
RECURSIVE searchLoopNoTags(_, _, _, _, _, _, _)
searchLoopNoTags(all, c, sim, threshold, v, folder, tags) ==
    IF all = <<>> THEN <<>>
    ELSE LET item == Head(all)
             similarity == sim[item.filePath][item.k]
         IN (IF folder # <<>> /\ ~startsWith(filePath(item.filePath), folder) THEN <<>>
             ELSE IF similarity < threshold THEN <<>>
             ELSE IF v[item.filePath].exists
             THEN <<[path |-> item.filePath, chunkId |-> item.vector.chunkId,
                     similarity |-> similarity]>>
             ELSE <<>>)
            \o searchLoopNoTags(Tail(all), c, sim, threshold, v, folder, tags)

\* the loop of search() under options.folder and options.tags (<<>> and {}
\* when the caller gives none): an item outside the folder prefix is skipped,
\* so is one whose entry shares no tag with a non-empty options.tags, before
\* the similarity is looked at
RECURSIVE searchLoop(_, _, _, _, _, _, _)
searchLoop(all, c, sim, threshold, v, folder, tags) ==
    IF all = <<>> THEN <<>>
    ELSE LET item == Head(all)
             metadata == c.embeddings[item.filePath].metadata
             similarity == sim[item.filePath][item.k]
         IN (IF folder # <<>> /\ ~startsWith(filePath(item.filePath), folder) THEN <<>>
             ELSE IF tags # {} /\ ~(\E tag \in tags : tag \in metadata.tags) THEN <<>>
             ELSE IF similarity < threshold THEN <<>>
             ELSE IF v[item.filePath].exists
             THEN <<[path |-> item.filePath, chunkId |-> item.vector.chunkId,
                     similarity |-> similarity]>>
             ELSE <<>>)
            \o searchLoop(Tail(all), c, sim, threshold, v, folder, tags)

\* the loop of findSimilar(file) without `if (item.filePath === file.path)`
findSimilarScanKeepsSource(all, f, sim, threshold, v) ==
    searchScan(all, sim, threshold, v)

\* the loop of findSimilar(file): as the loop of search(), and the items of
\* the source document are skipped
RECURSIVE findSimilarScan(_, _, _, _, _)
findSimilarScan(all, f, sim, threshold, v) ==
    IF all = <<>> THEN <<>>
    ELSE LET item == Head(all)
             similarity == sim[item.filePath][item.k]
         IN (IF item.filePath = f THEN <<>>
             ELSE IF similarity < threshold THEN <<>>
             ELSE IF v[item.filePath].exists
             THEN <<[path |-> item.filePath, chunkId |-> item.vector.chunkId,
                     similarity |-> similarity]>>
             ELSE <<>>)
            \o findSimilarScan(Tail(all), f, sim, threshold, v)

\* x put into the sorted list s behind every result that is not below it
RECURSIVE SortedInsert(_, _)
SortedInsert(x, s) ==
    IF s = <<>> THEN <<x>>
    ELSE IF Head(s).similarity >= x.similarity
    THEN <<Head(s)>> \o SortedInsert(x, Tail(s))
    ELSE <<x>> \o s

\* results.sort(...) that leaves the results in scan order
sortKeepsScanOrder(s) == s

\* results.sort((a, b) => b.similarity - a.similarity): descending and
\* stable, equal similarities keep the order of the scan
RECURSIVE sortBySimilarity(_)
sortBySimilarity(s) ==
    IF s = <<>> THEN <<>>
    ELSE SortedInsert(s[Len(s)], sortBySimilarity(SubSeq(s, 1, Len(s) - 1)))

\* results.slice(0, limit), limit >= 0
slice(s, limit) == SubSeq(s, 1, Min(limit, Len(s)))

\* ------------------------------------------------ the callers of processFile

Free(w, i) == [w EXCEPT !.tasks[i] = IdleTask]

\* the counters of processVault without `failed++` in the catch block
CountNoFailed(t, res) ==
    [t EXCEPT !.processed = IF res = "new" THEN @ + 1 ELSE @,
              !.cached = IF res = "cached" THEN @ + 1 ELSE @]

Count(t, res) ==
    [t EXCEPT !.processed = IF res = "new" THEN @ + 1 ELSE @,
              !.cached = IF res = "cached" THEN @ + 1 ELSE @,
              !.failed = IF res = "throw" THEN @ + 1 ELSE @]

\* processVault whose exception leaves without `finally`
vaultThrowKeepsFlag(w, i) ==
    Free([w EXCEPT !.notice = [msg |-> "ERROR"]], i)

\* processVault: an exception leaves through `finally`; the command that
\* called processVault shows the error
vaultThrow(w, i) ==
    Free([w EXCEPT !.pq = setProcessing(w.pq, FALSE),
                   !.notice = [msg |-> "ERROR"]], i)

\* processVault after the last batch: the final save, the summary, `finally`
vaultEnd(w, i, ok) ==
    LET t == w.tasks[i] IN
    IF CacheSaveThrows(w.cache, ok) THEN vaultThrow(w, i)
    ELSE Free([w EXCEPT !.cache = CacheSave(w.cache, ok),
                        !.pq = setProcessing(w.pq, FALSE),
                        !.notice = [msg |-> "Vault processed",
                                    processed |-> t.processed, cached |-> t.cached,
                                    skipped |-> Len(t.all) - Len(t.files),
                                    failed |-> t.failed, files |-> t.files,
                                    attempted |-> t.attempted,
                                    batches |-> Len(t.batches),
                                    saves |-> t.saves + 1]], i)

\* processQueue: `finally`
drainFinally(w, i) ==
    Free([w EXCEPT !.pq = setProcessing(w.pq, FALSE),
                   !.timers = IF ~QueueIsEmpty(w.pq)
                              THEN Min(w.timers + 1, MaxTimers) ELSE w.timers], i)

RECURSIVE Return(_, _, _, _)

\* task i calls processFile(f, skip) and goes on with what it returns, unless
\* processFile suspends
Start(w, i, f, skip, ok) ==
    LET c == processFileCall(w, i, f, skip) IN
    IF c.res = "suspend" THEN c.w ELSE Return(c.w, i, c.res, ok)

\* processVault that saves after every document instead of after every batch
vaultAfterFileSaveEach(w, i, res, ok) ==
    LET t == Count(w.tasks[i], res)
        w1 == [w EXCEPT !.tasks[i] = t]
        batch == t.batches[t.b]
    IN
    IF CacheSaveThrows(w1.cache, ok) THEN vaultThrow(w1, i)
    ELSE LET w2 == [w1 EXCEPT !.cache = CacheSave(w1.cache, ok),
                              !.tasks[i].saves = t.saves + 1] IN
         IF t.k < Len(batch)
         THEN Start([w2 EXCEPT !.tasks[i].k = t.k + 1], i, batch[t.k + 1], FALSE, ok)
         ELSE IF t.b < Len(t.batches)
         THEN Start([w2 EXCEPT !.tasks[i].b = t.b + 1, !.tasks[i].k = 1],
                    i, t.batches[t.b + 1][1], FALSE, ok)
         ELSE vaultEnd(w2, i, ok)

\* processVault, after `await this.processFile(file)`: the counters, the next
\* document of the batch, or the batch's save and the next batch
vaultAfterFile(w, i, res, ok) ==
    LET t == Count(w.tasks[i], res)
        w1 == [w EXCEPT !.tasks[i] = t]
        batch == t.batches[t.b]
    IN
    IF t.k < Len(batch)
    THEN Start([w1 EXCEPT !.tasks[i].k = t.k + 1], i, batch[t.k + 1], FALSE, ok)
    ELSE IF CacheSaveThrows(w1.cache, ok) THEN vaultThrow(w1, i)
    ELSE LET w2 == [w1 EXCEPT !.cache = CacheSave(w1.cache, ok),
                              !.tasks[i].saves = t.saves + 1] IN
         IF t.b < Len(t.batches)
         THEN Start([w2 EXCEPT !.tasks[i].b = t.b + 1, !.tasks[i].k = 1],
                    i, t.batches[t.b + 1][1], FALSE, ok)
         ELSE vaultEnd(w2, i, ok)

\* processBatch whose loop ends at the first file that fails
drainAfterFileStopAtFailure(w, i, res, ok) ==
    LET t == w.tasks[i]
        w1 == [w EXCEPT !.tasks[i].processed = IF res = "new" THEN @ + 1 ELSE @,
                        !.tasks[i].cached = IF res = "cached" THEN @ + 1 ELSE @]
        t1 == w1.tasks[i]
    IN
    IF t.k < Len(t.files) /\ res # "throw"
    THEN Start([w1 EXCEPT !.tasks[i].k = t.k + 1], i, t.files[t.k + 1], FALSE, ok)
    ELSE drainFinally(
            [w1 EXCEPT !.cache = CacheSave(w1.cache, ok),
                       !.notice = IF CacheSaveThrows(w1.cache, ok) THEN None
                                  ELSE [msg |-> "Processing complete",
                                        processed |-> t1.processed,
                                        cached |-> t1.cached, files |-> t1.files,
                                        attempted |-> t1.attempted,
                                        saves |-> t1.saves + 1]], i)

\* processBatch whose catch block puts the file that failed back on the queue
drainAfterFileRequeues(w, i, res, ok) ==
    LET t == w.tasks[i]
        w1 == [w EXCEPT !.tasks[i].processed = IF res = "new" THEN @ + 1 ELSE @,
                        !.tasks[i].cached = IF res = "cached" THEN @ + 1 ELSE @,
                        !.pq = IF res = "throw" THEN QueueAdd(@, t.files[t.k]) ELSE @]
        t1 == w1.tasks[i]
    IN
    IF t.k < Len(t.files)
    THEN Start([w1 EXCEPT !.tasks[i].k = t.k + 1], i, t.files[t.k + 1], FALSE, ok)
    ELSE drainFinally(
            [w1 EXCEPT !.cache = CacheSave(w1.cache, ok),
                       !.notice = IF CacheSaveThrows(w1.cache, ok) THEN None
                                  ELSE [msg |-> "Processing complete",
                                        processed |-> t1.processed,
                                        cached |-> t1.cached, files |-> t1.files,
                                        attempted |-> t1.attempted,
                                        saves |-> t1.saves + 1]], i)

\* processBatch, after `await this.processFile(file)`: the next file, or the
\* save and the notice, and then processQueue's `finally` (also when the save
\* throws, which skips the notice)
drainAfterFile(w, i, res, ok) ==
    LET t == w.tasks[i]
        w1 == [w EXCEPT !.tasks[i].processed = IF res = "new" THEN @ + 1 ELSE @,
                        !.tasks[i].cached = IF res = "cached" THEN @ + 1 ELSE @]
        t1 == w1.tasks[i]
    IN
    IF t.k < Len(t.files)
    THEN Start([w1 EXCEPT !.tasks[i].k = t.k + 1], i, t.files[t.k + 1], FALSE, ok)
    ELSE drainFinally(
            [w1 EXCEPT !.cache = CacheSave(w1.cache, ok),
                       !.notice = IF CacheSaveThrows(w1.cache, ok) THEN None
                                  ELSE [msg |-> "Processing complete",
                                        processed |-> t1.processed,
                                        cached |-> t1.cached, files |-> t1.files,
                                        attempted |-> t1.attempted,
                                        saves |-> t1.saves + 1]], i)

\* the 'process current file' command, after `await processFile(activeFile)`
commandAfterFile(w, i, res, ok) ==
    IF res = "throw" THEN Free(w, i)
    ELSE Free([w EXCEPT !.cache = CacheSave(w.cache, ok)], i)

\* findSimilar throws
findSimilarThrows(w, i) ==
    [w EXCEPT !.notice = [msg |-> "findSimilar", file |-> w.tasks[i].file,
                          threw |-> TRUE, threshold |-> w.tasks[i].threshold,
                          limit |-> w.tasks[i].limit, results |-> <<>>]]

\* findSimilar from `const queryEmbedding = fileChunks[0].vector` to its
\* return: the scan, the sort and the slice
findSimilarReturn(w, i) ==
    LET t == w.tasks[i]
        all == getAllChunksList(w.cache, w.scan.order)
        results == findSimilarScan(all, t.file, w.scan.sim, t.threshold, w.vault)
    IN [w EXCEPT !.notice = [msg |-> "findSimilar", file |-> t.file,
                             threw |-> FALSE, threshold |-> t.threshold,
                             limit |-> t.limit,
                             results |-> slice(sortBySimilarity(results), t.limit)]]

\* findSimilar, after `await this.plugin.processor.processFile(file, true)`:
\* the save, the second lookup under the hash of the text findSimilar has
\* read, and the scan
similarAfterFile(w, i, res, ok) ==
    LET t == w.tasks[i]
        w1 == [w EXCEPT !.cache = CacheSave(w.cache, ok)]
        fileChunks == CacheGet(w1.cache, t.file, t.hash)
    IN
    IF res = "throw" THEN Free(findSimilarThrows(w, i), i)
    ELSE IF CacheSaveThrows(w.cache, ok) THEN Free(findSimilarThrows(w1, i), i)
    ELSE IF fileChunks = None THEN Free(findSimilarThrows(w1, i), i)
    ELSE IF Len(fileChunks.chunks) = 0 THEN Free(findSimilarThrows(w1, i), i)
    ELSE Free(findSimilarReturn(w1, i), i)

Return(w, i, res, ok) ==
    CASE w.tasks[i].kind = "vault" -> vaultAfterFile(w, i, res, ok)
      [] w.tasks[i].kind = "drain" -> drainAfterFile(w, i, res, ok)
      [] w.tasks[i].kind = "file" -> commandAfterFile(w, i, res, ok)
      [] OTHER -> similarAfterFile(w, i, res, ok)

\* a step of processFile, and the caller's code after it when it returns
Resume(w, i, c, ok) ==
    IF c.res = "suspend" THEN c.w ELSE Return(c.w, i, c.res, ok)

\* findSimilar(file) after `await extractText(file)`: a cache hit needs no
\* processing, a miss processes the document with skipMinWordCheck = true
findSimilarText(w, i, r, ok) ==
    LET t == w.tasks[i] IN
    IF r = 0 THEN Free(findSimilarThrows(w, i), i)
    ELSE IF CacheGet(w.cache, t.file, computeHash(r)) # None
    THEN Free(findSimilarReturn(w, i), i)
    ELSE Start([w EXCEPT !.tasks[i].hash = computeHash(r)], i, t.file, TRUE, ok)

\* processVault() whose refusals leave through `finally` and clear the flag
processVaultRefusalClearsFlag(w, all, ok) ==
    IF w.pq.isProcessing
    THEN [w EXCEPT !.notice = [msg |-> "ALREADY_PROCESSING_VAULT"],
                   !.pq = setProcessing(w.pq, FALSE)]
    ELSE IF ~w.provider.ready
    THEN [w EXCEPT !.notice = [msg |-> "NO_EMBEDDING_PROVIDER"],
                   !.pq = setProcessing(w.pq, FALSE)]
    ELSE LET i == FreeSlot(w.tasks)
             w1 == [w EXCEPT !.pq = setProcessing(w.pq, TRUE),
                             !.tasks[i] = [IdleTask EXCEPT !.kind = "vault",
                                                           !.pc = "filter",
                                                           !.all = all, !.k = 1]]
         IN IF Len(all) = 0 THEN vaultEnd(w1, i, ok) ELSE w1

\* processVault() without the test of the flag
processVaultNoFlag(w, all, ok) ==
    IF ~w.provider.ready
    THEN [w EXCEPT !.notice = [msg |-> "NO_EMBEDDING_PROVIDER"]]
    ELSE LET i == FreeSlot(w.tasks)
             w1 == [w EXCEPT !.pq = setProcessing(w.pq, TRUE),
                             !.tasks[i] = [IdleTask EXCEPT !.kind = "vault",
                                                           !.pc = "filter",
                                                           !.all = all, !.k = 1]]
         IN IF Len(all) = 0 THEN vaultEnd(w1, i, ok) ELSE w1

\* processVault(): the refusals, or the flag and the list of documents; with
\* no document the pass ends at once
processVault(w, all, ok) ==
    IF w.pq.isProcessing
    THEN [w EXCEPT !.notice = [msg |-> "ALREADY_PROCESSING_VAULT"]]
    ELSE IF ~w.provider.ready
    THEN [w EXCEPT !.notice = [msg |-> "NO_EMBEDDING_PROVIDER"]]
    ELSE LET i == FreeSlot(w.tasks)
             w1 == [w EXCEPT !.pq = setProcessing(w.pq, TRUE),
                             !.tasks[i] = [IdleTask EXCEPT !.kind = "vault",
                                                           !.pc = "filter",
                                                           !.all = all, !.k = 1]]
         IN IF Len(all) = 0 THEN vaultEnd(w1, i, ok) ELSE w1

\* filterFilesByWordCount, after one `await extractText(file)` (r, 0 when it
\* rejects: the document is kept); after the last one the batches are built
\* and the first document is processed
vaultFilter(w, i, r, adaptive, ok) ==
    LET t == w.tasks[i]
        files == IF r = 0 \/ countWords(r) >= MinWordCount
                 THEN Append(t.files, t.all[t.k]) ELSE t.files
        batches == createBatches(files, w.settings.batchSize, w.samples, adaptive)
        w1 == [w EXCEPT !.tasks[i].files = files]
    IN
    IF t.k < Len(t.all) THEN [w1 EXCEPT !.tasks[i].k = t.k + 1]
    ELSE IF Len(batches) = 0 THEN vaultEnd(w1, i, ok)
    ELSE Start([w1 EXCEPT !.tasks[i].batches = batches, !.tasks[i].b = 1,
                          !.tasks[i].k = 1],
               i, batches[1][1], FALSE, ok)

\* processQueue() that tests the queue only, not the flag
processQueueNoFlag(w, ok) ==
    IF QueueIsEmpty(w.pq) THEN w
    ELSE LET i == FreeSlot(w.tasks)
             batch == QueueTake(w.pq, w.settings.batchSize)
             w1 == [w EXCEPT !.pq = QueueRemove(setProcessing(w.pq, TRUE),
                                               w.settings.batchSize),
                             !.tasks[i] = [IdleTask EXCEPT !.kind = "drain",
                                                           !.files = batch, !.k = 1]]
         IN IF ~w.provider.ready \/ Len(batch) = 0 THEN drainFinally(w1, i)
            ELSE Start(w1, i, batch[1], FALSE, ok)

\* processQueue(): a drain step takes batchSize files off the queue and hands
\* them to processBatch
processQueue(w, ok) ==
    IF w.pq.isProcessing \/ QueueIsEmpty(w.pq) THEN w
    ELSE LET i == FreeSlot(w.tasks)
             batch == QueueTake(w.pq, w.settings.batchSize)
             w1 == [w EXCEPT !.pq = QueueRemove(setProcessing(w.pq, TRUE),
                                               w.settings.batchSize),
                             !.tasks[i] = [IdleTask EXCEPT !.kind = "drain",
                                                           !.files = batch, !.k = 1]]
         IN IF ~w.provider.ready \/ Len(batch) = 0 THEN drainFinally(w1, i)
            ELSE Start(w1, i, batch[1], FALSE, ok)

\* queueFile(file)
queueFile(w, f, ok) == processQueue([w EXCEPT !.pq = QueueAdd(w.pq, f)], ok)

\* checkAndQueueModified(): queueFile for every modified file, in order
RECURSIVE queueAll(_, _, _)
queueAll(w, fs, ok) ==
    IF Len(fs) = 0 THEN w
    ELSE queueAll(queueFile(w, Head(fs), ok), Tail(fs), ok)

checkAndQueueModified(w, mt, all, ok) ==
    queueAll([w EXCEPT !.pq = RecordModTimes(w.pq, mt, Range(all))],
             SelectSeq(all, LAMBDA f : IsModified(w.pq, mt, f)), ok)

\* invalidate(file)
invalidate(w, f) == [w EXCEPT !.cache = CacheRemove(w.cache, f)]

\* the 'Clear cache' button: clear() and save()
clearCacheButton(w, ok) == [w EXCEPT !.cache = CacheSave(CacheClear(w.cache), ok)]

\* the model dropdown, after `await provider.switchModel(newModel)`: the
\* cache is cleared and saved
modelChanged(w, ok) == [w EXCEPT !.cache = CacheSave(CacheClear(w.cache), ok)]

\* SemanticSearch.search(query): the chunks the scan can return, which are
\* the cached chunks whose path resolves to a document of the vault (those
\* among them that reach the threshold are returned, up to the limit)
search(c, v) == {item \in getAllChunksFlattened(c) : v[item.filePath].exists}

\* what a call of search leaves behind: whether it threw, the number of
\* cached chunks it met, the number of results before the slice and the list
\* it returned
searchEnds(w, t, threw, error, chunks, matched, results) ==
    [w EXCEPT !.notice = [msg |-> "search", threw |-> threw, error |-> error,
                          provider |-> w.provider.ready, chunks |-> chunks,
                          matched |-> matched,
                          threshold |-> t.threshold, limit |-> t.limit,
                          results |-> results]]

\* search(query, options) that asks for no provider
searchCallNoProviderCheck(w, i, threshold, limit) ==
    [w EXCEPT !.tasks[i] = [IdleTask EXCEPT !.kind = "search", !.pc = "query",
                                           !.threshold = threshold,
                                           !.limit = limit]]

\* search(query, options) up to `await provider.embed(normalizedQuery, QUERY)`
searchCall(w, i, threshold, limit) ==
    IF ~w.provider.ready
    THEN searchEnds(w, [threshold |-> threshold, limit |-> limit], TRUE,
                    "No embedding provider available", 0, 0, <<>>)
    ELSE [w EXCEPT !.tasks[i] = [IdleTask EXCEPT !.kind = "search", !.pc = "query",
                                                !.threshold = threshold,
                                                !.limit = limit]]

\* search from the query embedding (good: provider.embed resolved) to the
\* return
searchEmbedded(w, i, good) ==
    LET t == w.tasks[i]
        allChunks == getAllChunksList(w.cache, w.scan.order)
        results == searchScan(allChunks, w.scan.sim, t.threshold, w.vault)
    IN
    IF ~good THEN Free(searchEnds(w, t, TRUE, "embed", Len(allChunks), 0, <<>>), i)
    ELSE IF Len(allChunks) = 0 THEN Free(searchEnds(w, t, FALSE, "", 0, 0, <<>>), i)
    ELSE Free(searchEnds(w, t, FALSE, "", Len(allChunks), Len(results),
                         slice(sortBySimilarity(results), t.limit)), i)

\* ------------------------------------------------------------------ actions

\* floor(targetBatchTimeMs / avg) as far as createBatches tells values apart
AdaptiveSizes == {0, AdaptiveMin, AdaptiveMax}

Calls(ts) == {i \in 1..MaxTasks : ts[i].kind \in {"file", "similar", "search"}}

\* what a step of task i is given for a scan it may run: search scans after
\* the query embedding, findSimilar after its own read (a cache hit) and when
\* processFile returns, which it does after either of its reads
ScanFor(i) ==
    IF /\ tasks[i].kind \in {"similar", "search"}
       /\ tasks[i].pc \in {"query", "simtext", "text", "meta"}
    THEN ScanInputs ELSE {None}

Init ==
    /\ vault \in {v \in [Paths -> [content : Contents, exists : {TRUE}]] :
                    \A p \in Paths : p > 1 => v[p].content = MaxContent}
    /\ mtime = [p \in Paths |-> 1]
    /\ provider = [ready |-> FALSE, model |-> "multilingual-e5-small"]
    /\ cache = [embeddings |-> createEmptyCache, isDirty |-> FALSE,
                disk |-> createEmptyCache]
    /\ pq = [queue |-> <<>>, lastCheckedModTimes |-> [p \in Paths |-> 0],
             isProcessing |-> FALSE, observed |-> {}]
    /\ samples = 0
    /\ timers = 0
    /\ tasks = [i \in 1..MaxTasks |-> IdleTask]
    /\ notice = None
    /\ events = 0
    /\ settings = [batchSize |-> BatchSize]
    /\ lastSet = [p \in Paths |-> None]

\* downloadDependencies(): the provider is ready; on a first load (the cache
\* loaded empty) the vault is processed at once
ProviderInitialized ==
    /\ ~provider.ready
    /\ provider' = [provider EXCEPT !.ready = TRUE]
    /\ \E ok \in BOOLEAN :
         Commit(processVault([World EXCEPT !.provider.ready = TRUE],
                             getMarkdownFiles(vault), ok))
    /\ UNCHANGED <<vault, mtime, events>>

\* the vault's 'modify' (there is no handler: the periodic check finds it)
Modify(p, c) ==
    /\ events < MaxEvents
    /\ vault[p].exists /\ vault[p].content # c
    /\ vault' = [vault EXCEPT ![p].content = c]
    /\ mtime' = [mtime EXCEPT ![p] = @ + 1]
    /\ events' = events + 1
    /\ notice' = None
    /\ UNCHANGED <<provider, cache, pq, samples, timers, tasks, settings, lastSet>>

\* the vault's 'delete' and its handler: processor.invalidate(file)
Delete(p) ==
    /\ events < MaxEvents
    /\ vault[p].exists
    /\ vault' = [vault EXCEPT ![p].exists = FALSE]
    /\ events' = events + 1
    /\ Commit(invalidate(World, p))
    /\ UNCHANGED <<mtime, provider>>

\* the 'Clear cache' button of the settings tab
ClearCache ==
    /\ events < MaxEvents
    /\ events' = events + 1
    /\ \E ok \in BOOLEAN : Commit(clearCacheButton(World, ok))
    /\ UNCHANGED <<vault, mtime, provider>>

\* the model dropdown of the settings tab: provider.switchModel(m) has loaded
\* the model, and the handler goes on
SwitchModel(m) ==
    /\ events < MaxEvents
    /\ provider.ready /\ provider.model # m
    /\ provider' = [provider EXCEPT !.model = m]
    /\ events' = events + 1
    /\ \E ok \in BOOLEAN : Commit(modelChanged([World EXCEPT !.provider.model = m], ok))
    /\ UNCHANGED <<vault, mtime>>

\* the 'process entire vault' command and button
ProcessVault ==
    /\ HasFree(tasks)
    /\ \E ok \in BOOLEAN : Commit(processVault(World, getMarkdownFiles(vault), ok))
    /\ UNCHANGED <<vault, mtime, provider, events>>

\* the 'process current file' command
ProcessCurrentFile(p) ==
    /\ HasFree(tasks) /\ Cardinality(Calls(tasks)) < MaxCalls
    /\ vault[p].exists
    /\ LET i == FreeSlot(tasks) IN
       \E ok \in BOOLEAN :
         Commit(Start([World EXCEPT !.tasks[i].kind = "file"], i, p, FALSE, ok))
    /\ UNCHANGED <<vault, mtime, provider, events>>

\* the 'find similar notes' command: findSimilar(activeFile)
FindSimilar(p) ==
    /\ HasFree(tasks) /\ Cardinality(Calls(tasks)) < MaxCalls
    /\ vault[p].exists
    /\ provider.ready
    /\ \E threshold \in Thresholds, limit \in Limits :
         tasks' = [tasks EXCEPT ![FreeSlot(tasks)] =
                     [IdleTask EXCEPT !.kind = "similar", !.pc = "simtext",
                                      !.file = p, !.threshold = threshold,
                                      !.limit = limit]]
    /\ notice' = None
    /\ UNCHANGED <<vault, mtime, provider, cache, pq, samples, timers, events, settings, lastSet>>

\* queueFile(file)
QueueFile(p) ==
    /\ HasFree(tasks)
    /\ vault[p].exists
    /\ \E ok \in BOOLEAN : Commit(queueFile(World, p, ok))
    /\ UNCHANGED <<vault, mtime, provider, events>>

\* the periodic check: checkAndQueueModified()
CheckAndQueueModified ==
    /\ HasFree(tasks)
    /\ \E ok \in BOOLEAN :
         Commit(checkAndQueueModified(World, mtime, getMarkdownFiles(vault), ok))
    /\ UNCHANGED <<vault, mtime, provider, events>>

\* setTimeout(() => this.processQueue(), 100) fires
TimerFires ==
    /\ timers > 0
    /\ HasFree(tasks)
    /\ \E ok \in BOOLEAN : Commit(processQueue([World EXCEPT !.timers = @ - 1], ok))
    /\ UNCHANGED <<vault, mtime, provider, events>>

\* processVault resumes in filterFilesByWordCount
FilterStep(i) ==
    /\ tasks[i].kind = "vault" /\ tasks[i].pc = "filter"
    /\ \E r \in ReadOutcomes(vault, tasks[i].all[tasks[i].k]),
          a \in AdaptiveSizes, ok \in BOOLEAN :
         Commit(vaultFilter(World, i, r, a, ok))
    /\ UNCHANGED <<vault, mtime, provider, events>>

\* findSimilar resumes after its own extractText
SimilarTextStep(i) ==
    /\ tasks[i].pc = "simtext"
    /\ \E r \in ReadOutcomes(vault, tasks[i].file), ok \in BOOLEAN, s \in ScanFor(i) :
         Commit(findSimilarText([World EXCEPT !.scan = s], i, r, ok))
    /\ UNCHANGED <<vault, mtime, provider, events>>

\* processFile resumes after extractText
TextStep(i) ==
    /\ tasks[i].pc = "text"
    /\ \E r \in ReadOutcomes(vault, tasks[i].file), ok \in BOOLEAN, s \in ScanFor(i) :
         LET w == [World EXCEPT !.scan = s] IN
         Commit(Resume(w, i, processFileText(w, i, r), ok))
    /\ UNCHANGED <<vault, mtime, provider, events>>

\* processFile resumes after a provider.embed, which resolved or rejected
EmbedStep(i) ==
    /\ tasks[i].pc = "embed"
    /\ \E good \in BOOLEAN, ok \in BOOLEAN, s \in ScanFor(i) :
         LET w == [World EXCEPT !.scan = s] IN
         Commit(Resume(w, i, processFileEmbed(w, i, good), ok))
    /\ UNCHANGED <<vault, mtime, provider, events>>

\* processFile resumes after extractMetadata
MetaStep(i) ==
    /\ tasks[i].pc = "meta"
    /\ \E r \in ReadOutcomes(vault, tasks[i].file), ok \in BOOLEAN, s \in ScanFor(i) :
         LET w == [World EXCEPT !.scan = s] IN
         Commit(Resume(w, i, processFileMeta(w, i, r), ok))
    /\ UNCHANGED <<vault, mtime, provider, events>>

\* the search modal and the inline suggestions: search(query, options)
Search ==
    /\ HasFree(tasks) /\ Cardinality(Calls(tasks)) < MaxCalls
    /\ \E threshold \in Thresholds, limit \in Limits :
         Commit(searchCall(World, FreeSlot(tasks), threshold, limit))
    /\ UNCHANGED <<vault, mtime, provider, events>>

\* search resumes after provider.embed of the query, which resolved or
\* rejected
SearchStep(i) ==
    /\ tasks[i].pc = "query"
    /\ \E good \in BOOLEAN, s \in ScanFor(i) :
         Commit(searchEmbedded([World EXCEPT !.scan = s], i, good))
    /\ UNCHANGED <<vault, mtime, provider, events>>

\* the cache, called directly: set, remove, clear and save with any arguments;
\* notice holds the call, the cache before it and whether it threw
ChunkLists == {<<embed(m, c, 1)>> : m \in Models, c \in Contents}
Hashes == {computeHash(c) : c \in Contents}

ApiSet(p, chunks, h) ==
    /\ cache' = CacheSet(cache, p, chunks, h, [wordCount |-> 0])
    /\ lastSet' = [lastSet EXCEPT ![p] = [chunks |-> chunks, hash |-> h]]
    /\ notice' = None
    /\ UNCHANGED <<vault, mtime, provider, pq, samples, timers, tasks, events,
                   settings>>

ApiRemove(p) ==
    /\ cache' = CacheRemove(cache, p)
    /\ lastSet' = [lastSet EXCEPT ![p] = None]
    /\ notice' = [msg |-> "cache.remove", path |-> p, before |-> cache]
    /\ UNCHANGED <<vault, mtime, provider, pq, samples, timers, tasks, events,
                   settings>>

ApiClear ==
    /\ cache' = CacheClear(cache)
    /\ lastSet' = [q \in Paths |-> None]
    /\ notice' = [msg |-> "cache.clear", before |-> cache]
    /\ UNCHANGED <<vault, mtime, provider, pq, samples, timers, tasks, events,
                   settings>>

ApiSave(ok) ==
    /\ cache' = CacheSave(cache, ok)
    /\ notice' = [msg |-> "cache.save", ok |-> ok, before |-> cache,
                  threw |-> CacheSaveThrows(cache, ok)]
    /\ UNCHANGED <<lastSet, vault, mtime, provider, pq, samples, timers, tasks,
                   events, settings>>

\* the plugin loads: a new EmbeddingCache is constructed and initialized from
\* the cache file, which holds anything
Load(exists, file) ==
    /\ cache' = initialize([embeddings |-> createEmptyCache, isDirty |-> FALSE,
                            disk |-> IF exists THEN file ELSE None],
                           exists, file)
    /\ lastSet' = [q \in Paths |-> None]
    /\ notice' = [msg |-> "initialize", exists |-> exists, file |-> file]
    /\ UNCHANGED <<vault, mtime, provider, pq, samples, timers, tasks, events,
                   settings>>

\* the queue, called directly: add, remove and checkForModifications with any
\* arguments, between changes of file.stat.mtime to any value; notice holds
\* the call, the queue before it and what it returned
ApiAdd(f) ==
    /\ pq' = QueueAdd(pq, f)
    /\ notice' = [msg |-> "add", file |-> f, before |-> pq.queue]
    /\ UNCHANGED <<vault, mtime, provider, cache, samples, timers, tasks, events,
                   settings, lastSet>>

ApiQueueRemove(count) ==
    /\ pq' = QueueRemove(pq, count)
    /\ notice' = [msg |-> "remove", count |-> count, before |-> pq.queue,
                  returned |-> QueueTake(pq, count)]
    /\ UNCHANGED <<vault, mtime, provider, cache, samples, timers, tasks, events,
                   settings, lastSet>>

ApiCheckForModifications(all) ==
    /\ pq' = RecordModTimes(pq, mtime, Range(all))
    /\ notice' = [msg |-> "checkForModifications", files |-> all,
                  returned |-> SelectSeq(all, LAMBDA f : IsModified(pq, mtime, f))]
    /\ UNCHANGED <<vault, mtime, provider, cache, samples, timers, tasks, events,
                   settings, lastSet>>

Touch(p, t) ==
    /\ mtime[p] # t
    /\ mtime' = [mtime EXCEPT ![p] = t]
    /\ notice' = None
    /\ UNCHANGED <<vault, provider, cache, pq, samples, timers, tasks, events,
                   settings, lastSet>>

\* Spec: full passes and the 'process current file' command, with documents
\* modified and deleted from outside.
Next ==
    \/ ProviderInitialized
    \/ \E p \in Paths, c \in Contents : Modify(p, c)
    \/ \E p \in Paths : Delete(p)
    \/ ProcessVault
    \/ \E p \in Paths : ProcessCurrentFile(p)
    \/ \E i \in 1..MaxTasks : FilterStep(i)
    \/ \E i \in 1..MaxTasks : TextStep(i)
    \/ \E i \in 1..MaxTasks : EmbedStep(i)
    \/ \E i \in 1..MaxTasks : MetaStep(i)

Spec == Init /\ [][Next]_vars

\* QueueSpec: the queue and its drain against full passes, with documents
\* modified from outside.
QueueNext ==
    \/ ProviderInitialized
    \/ \E p \in Paths, c \in Contents : Modify(p, c)
    \/ ProcessVault
    \/ \E p \in Paths : QueueFile(p)
    \/ CheckAndQueueModified
    \/ TimerFires
    \/ \E i \in 1..MaxTasks : FilterStep(i)
    \/ \E i \in 1..MaxTasks : TextStep(i)
    \/ \E i \in 1..MaxTasks : EmbedStep(i)
    \/ \E i \in 1..MaxTasks : MetaStep(i)

QueueSpec == Init /\ [][QueueNext]_vars

\* FairQueueSpec: the queue and its drain against the pass of the first
\* load, where what the engine itself has scheduled does happen: a timer
\* fires, a read or a provider call that an operation awaits settles.
\* Nothing obliges the outside to call the engine again.
FairQueueNext ==
    \/ ProviderInitialized
    \/ \E p \in Paths, c \in Contents : Modify(p, c)
    \/ \E p \in Paths : QueueFile(p)
    \/ CheckAndQueueModified
    \/ TimerFires
    \/ \E i \in 1..MaxTasks : FilterStep(i)
    \/ \E i \in 1..MaxTasks : TextStep(i)
    \/ \E i \in 1..MaxTasks : EmbedStep(i)
    \/ \E i \in 1..MaxTasks : MetaStep(i)

FairQueueSpec ==
    /\ Init
    /\ [][FairQueueNext]_vars
    /\ WF_vars(TimerFires)
    /\ \A i \in 1..MaxTasks :
         /\ WF_vars(FilterStep(i))
         /\ WF_vars(TextStep(i))
         /\ WF_vars(EmbedStep(i))
         /\ WF_vars(MetaStep(i))

\* WideSpec: QueueSpec's operations under any settings.processing.batchSize up
\* to WideBatch, so that a batch can hold more than one document.
WideInit ==
    /\ vault \in {v \in [Paths -> [content : Contents, exists : {TRUE}]] :
                    \A p \in Paths : p > 1 => v[p].content = MaxContent}
    /\ mtime = [p \in Paths |-> 1]
    /\ provider = [ready |-> FALSE, model |-> "multilingual-e5-small"]
    /\ cache = [embeddings |-> createEmptyCache, isDirty |-> FALSE,
                disk |-> createEmptyCache]
    /\ pq = [queue |-> <<>>, lastCheckedModTimes |-> [p \in Paths |-> 0],
             isProcessing |-> FALSE, observed |-> {}]
    /\ samples = 0
    /\ timers = 0
    /\ tasks = [i \in 1..MaxTasks |-> IdleTask]
    /\ notice = None
    /\ events = 0
    /\ settings \in [batchSize : 1..WideBatch]
    /\ lastSet = [p \in Paths |-> None]

WideSpec == WideInit /\ [][QueueNext]_vars

\* QueueApiSpec: one ProcessingQueue under any sequence of add, remove and
\* checkForModifications, over files whose mtime takes any value from 0.
QueueApiInit ==
    /\ vault = [p \in Paths |-> [content |-> MaxContent, exists |-> TRUE]]
    /\ mtime \in [Paths -> 0..MaxTime]
    /\ provider = [ready |-> FALSE, model |-> "multilingual-e5-small"]
    /\ cache = [embeddings |-> createEmptyCache, isDirty |-> FALSE,
                disk |-> createEmptyCache]
    /\ pq = [queue |-> <<>>, lastCheckedModTimes |-> [p \in Paths |-> 0],
             isProcessing |-> FALSE, observed |-> {}]
    /\ samples = 0
    /\ timers = 0
    /\ tasks = [i \in 1..MaxTasks |-> IdleTask]
    /\ notice = None
    /\ events = 0
    /\ settings = [batchSize |-> BatchSize]
    /\ lastSet = [p \in Paths |-> None]

QueueApiNext ==
    \/ \E p \in Paths : ApiAdd(p)
    \/ \E n \in 0..(MaxFiles + 1) : ApiQueueRemove(n)
    \/ \E S \in SUBSET Paths :
          ApiCheckForModifications(SelectSeq(getMarkdownFiles(vault), LAMBDA f : f \in S))
    \/ \E p \in Paths, t \in 0..MaxTime : Touch(p, t)

QueueApiSpec == QueueApiInit /\ [][QueueApiNext]_vars

\* LoadSpec: the cache is loaded from any file, used (set, save) and loaded
\* again.
LoadNext ==
    \/ \E exists \in BOOLEAN, file \in CacheFiles : Load(exists, file)
    \/ \E p \in Paths, chunks \in ChunkLists, h \in Hashes : ApiSet(p, chunks, h)
    \/ \E ok \in BOOLEAN : ApiSave(ok)

LoadSpec == Init /\ [][LoadNext]_vars

\* SettingsSpec: full passes and the 'process current file' command against
\* the settings tab ('Clear cache', the model dropdown).
SettingsNext ==
    \/ ProviderInitialized
    \/ ClearCache
    \/ \E m \in Models : SwitchModel(m)
    \/ ProcessVault
    \/ \E p \in Paths : ProcessCurrentFile(p)
    \/ \E i \in 1..MaxTasks : FilterStep(i)
    \/ \E i \in 1..MaxTasks : TextStep(i)
    \/ \E i \in 1..MaxTasks : EmbedStep(i)
    \/ \E i \in 1..MaxTasks : MetaStep(i)

SettingsSpec == Init /\ [][SettingsNext]_vars

\* SimilarSpec: findSimilar against the 'process current file' command and
\* the first pass, with documents modified from outside.
SimilarNext ==
    \/ ProviderInitialized
    \/ \E p \in Paths, c \in Contents : Modify(p, c)
    \/ \E p \in Paths : ProcessCurrentFile(p)
    \/ \E p \in Paths : FindSimilar(p)
    \/ \E i \in 1..MaxTasks : FilterStep(i)
    \/ \E i \in 1..MaxTasks : SimilarTextStep(i)
    \/ \E i \in 1..MaxTasks : TextStep(i)
    \/ \E i \in 1..MaxTasks : EmbedStep(i)
    \/ \E i \in 1..MaxTasks : MetaStep(i)

SimilarSpec == Init /\ [][SimilarNext]_vars

\* SearchSpec: search, findSimilar and the 'process current file' command
\* over a cache that initialize() has loaded with any entries, with or
\* without a provider, while documents are deleted.
SearchEntry(c) ==
    [fileHash |-> computeHash(c), metadata |-> [wordCount |-> countWords(c)],
     chunks |-> [k \in 1..Len(chunk(c)) |->
                   embed("multilingual-e5-small", c, chunk(c)[k])]]

SearchInit ==
    /\ vault \in {v \in [Paths -> [content : Contents, exists : {TRUE}]] :
                    \A p \in Paths : p > 1 => v[p].content = MaxContent}
    /\ mtime = [p \in Paths |-> 1]
    /\ provider \in [ready : BOOLEAN, model : {"multilingual-e5-small"}]
    /\ \E e \in [Paths -> {None} \cup {SearchEntry(c) : c \in Contents}] :
         cache = [embeddings |-> e, isDirty |-> FALSE, disk |-> e]
    /\ pq = [queue |-> <<>>, lastCheckedModTimes |-> [p \in Paths |-> 0],
             isProcessing |-> FALSE, observed |-> {}]
    /\ samples = 0
    /\ timers = 0
    /\ tasks = [i \in 1..MaxTasks |-> IdleTask]
    /\ notice = None
    /\ events = 0
    /\ settings = [batchSize |-> BatchSize]
    /\ lastSet = [p \in Paths |-> None]

SearchNext ==
    \/ \E p \in Paths : Delete(p)
    \/ \E p \in Paths : ProcessCurrentFile(p)
    \/ Search
    \/ \E i \in 1..MaxTasks : SearchStep(i)
    \/ \E p \in Paths : FindSimilar(p)
    \/ \E i \in 1..MaxTasks : SimilarTextStep(i)
    \/ \E i \in 1..MaxTasks : TextStep(i)
    \/ \E i \in 1..MaxTasks : EmbedStep(i)
    \/ \E i \in 1..MaxTasks : MetaStep(i)

SearchSpec == SearchInit /\ [][SearchNext]_vars

\* ChunkSpec: one call of NoteChunker.chunk, on any note of up to MaxLines
\* lines and under any options.  The headings are of level 1 and 4 (above and
\* below the default maxHeadingLevel of 3); two of their texts differ in case
\* only.
Lines ==
    {Blank, TextLine(<<SentenceWords>>),
     TextLine(<<SentenceWords, SentenceWords, SentenceWords>>),
     HeadingLine(1, <<"a">>), HeadingLine(1, <<"A", "!">>), HeadingLine(4, <<"b">>)}
Notes == UNION {[1..n -> Lines] : n \in 1..MaxLines}
ChunkingOptions ==
    [maxWords : {30, 60}, minWords : {0, 50}, splitAtHeadings : BOOLEAN,
     maxHeadingLevel : {3, 6}]

\* chunker.chunk(content); notice holds the call and what it returned
Chunk(content, options) ==
    /\ notice' = [msg |-> "chunk", content |-> content, options |-> options,
                  strategy |-> strategy(content, options),
                  chunks |-> chunkNote(content, options)]
    /\ UNCHANGED <<vault, mtime, provider, cache, pq, samples, timers, tasks,
                   events, settings, lastSet>>

\* a run is one call
ChunkNext ==
    /\ notice = None
    /\ \E content \in Notes, options \in ChunkingOptions : Chunk(content, options)

ChunkSpec == Init /\ [][ChunkNext]_vars

\* ExtractSpec: processFile from extractText to chunker.chunk, on any note of
\* up to MaxLines lines.
\* processFile reads the document and chunks what extractText returned;
\* notice holds the document, the text and what the chunker returned
ExtractAndChunk(content) ==
    LET text == extractText(content) IN
    /\ notice' = [msg |-> "processFile.chunk", content |-> content, text |-> text,
                  options |-> DefaultChunkingOptions,
                  strategy |-> strategy(text, DefaultChunkingOptions),
                  chunks |-> chunkNote(text, DefaultChunkingOptions)]
    /\ UNCHANGED <<vault, mtime, provider, cache, pq, samples, timers, tasks,
                   events, settings, lastSet>>

ExtractNext ==
    /\ notice = None
    /\ \E content \in Notes : ExtractAndChunk(content)

ExtractSpec == Init /\ [][ExtractNext]_vars

\* BatchSpec: the batches of one pass, for any number of documents up to
\* MaxItems (document n of the list is n), a configured batch size below and
\* inside 5..50, adaptive batching on and off, any number of samples around
\* the 5 that the statistics ask for, and averages of 0 ms and more.
ItemLists == {[n \in 1..k |-> n] : k \in 0..MaxItems}
BatchConfigs == [batchSize : {3, 20}, adaptiveBatching : BOOLEAN]
SampleCounts == {0, 4, 5, 6}
AvgTimes == {0, 1, 200, 201, 250, 1999, 2000, 2001, 10001}

\* the loops of processVault over its batches: batch by batch, and a batch
\* file by file, each processFile awaited before the next
RECURSIVE processingOrder(_)
processingOrder(batches) ==
    IF batches = <<>> THEN <<>>
    ELSE Head(batches) \o processingOrder(Tail(batches))

\* processVault builds its batches and walks them; notice holds the inputs,
\* the batches and the order in which the documents are handed to processFile
VaultBatches(files, config, samplesCount, avg) ==
    /\ notice' = [msg |-> "createBatches", items |-> files, config |-> config,
                  samplesCount |-> samplesCount, avg |-> avg,
                  batches |-> vaultBatches(files, config, samplesCount, avg),
                  order |-> processingOrder(
                              vaultBatches(files, config, samplesCount, avg))]
    /\ UNCHANGED <<vault, mtime, provider, cache, pq, samples, timers, tasks,
                   events, settings, lastSet>>

BatchNext ==
    /\ notice = None
    /\ \E files \in ItemLists, config \in BatchConfigs,
          samplesCount \in SampleCounts, avg \in AvgTimes :
            VaultBatches(files, config, samplesCount, avg)

BatchSpec == Init /\ [][BatchNext]_vars

\* RankSpec: search() with its folder and tag options over any cache, any
\* similarities, any scan order and a document that may have been deleted.
EntryTags == {{}, {"t"}, {"u"}}
RankEntries ==
    {None} \cup
    {[fileHash |-> computeHash(n),
      metadata |-> [wordCount |-> countWords(n), tags |-> ts],
      chunks |-> [k \in 1..Len(chunk(n)) |->
                    embed("multilingual-e5-small", n, chunk(n)[k])]] :
        n \in Contents, ts \in EntryTags}
\* the caches of a scan: the documents after the first hold the longest text
RankCaches == {es \in [Paths -> RankEntries] :
                 \A p \in Paths : (p > 1 /\ es[p] # None) => Len(es[p].chunks) = MaxContent}
Folders == {<<>>, <<"a">>, <<"a", "b">>}
\* options.threshold of search(), its default
RankThreshold == 50
TagFilters == {{}, {"t"}, {"t", "u"}}

\* search(query, options) from getAllChunksFlattened() to slice(0, limit);
\* gone is the document whose path no longer resolves to a TFile (0: none)
Rank(es, gone, scan, threshold, limit, folder, tags) ==
    LET c == [embeddings |-> es, isDirty |-> FALSE, disk |-> es]
        v == [p \in Paths |-> [vault[p] EXCEPT !.exists = (p # gone)]]
        all == getAllChunksList(c, scan.order)
    IN
    /\ notice' = [msg |-> "rank",
                  items |-> [n \in 1..Len(all) |->
                               [path |-> all[n].filePath,
                                chunkId |-> all[n].vector.chunkId,
                                tags |-> es[all[n].filePath].metadata.tags,
                                similarity |-> scan.sim[all[n].filePath][all[n].k]]],
                  gone |-> gone, threshold |-> threshold, limit |-> limit,
                  folder |-> folder, tags |-> tags,
                  results |-> slice(sortBySimilarity(
                                      searchLoop(all, c, scan.sim, threshold, v,
                                                 folder, tags)), limit)]
    /\ UNCHANGED <<vault, mtime, provider, cache, pq, samples, timers, tasks,
                   events, settings, lastSet>>

RankNext ==
    /\ notice = None
    /\ \E es \in RankCaches, gone \in {0, 1}, scan \in ScanInputs,
          limit \in Limits, folder \in Folders, tags \in TagFilters :
            Rank(es, gone, scan, RankThreshold, limit, folder, tags)

RankSpec == Init /\ [][RankNext]_vars

\* CacheSpec: one cache under any sequence of set, remove, clear and save.
CacheNext ==
    \/ \E p \in Paths, chunks \in ChunkLists, h \in Hashes : ApiSet(p, chunks, h)
    \/ \E p \in Paths : ApiRemove(p)
    \/ ApiClear
    \/ \E ok \in BOOLEAN : ApiSave(ok)

CacheSpec == Init /\ [][CacheNext]_vars

\* ------------------------------------------------------------------- claims

\* C1: search() never returns a result taken from a cache entry whose stored
\* fileHash differs from the hash of the document's present content: every
\* chunk the scan can return comes from an entry in step with the document.
C1_SearchServesOnlyCurrentEntries ==
    \A item \in search(cache, vault) :
        item.fileHash = computeHash(vault[item.filePath].content)

\* C2: at most one full pass is in flight, and a processVault() called while
\* the flag of an unfinished pass is set processes nothing: it shows the
\* refusal and leaves the cache, the queue, the flag and the operations in
\* flight as they are.
C2_OnePassAtATime ==
    /\ Cardinality({i \in 1..MaxTasks : tasks[i].kind = "vault"}) <= 1
    /\ (\E i \in 1..MaxTasks : tasks[i].kind = "vault") =>
         \A ok \in BOOLEAN :
            processVault(World, getMarkdownFiles(vault), ok) =
                [World EXCEPT !.notice = [msg |-> "ALREADY_PROCESSING_VAULT"]]

\* C2: a pass is in flight and a later processVault() has just been refused.
C2_Witness ==
    /\ \E i \in 1..MaxTasks : tasks[i].kind = "vault" /\ tasks[i].pc = "embed"
    /\ notice = [msg |-> "ALREADY_PROCESSING_VAULT"]

\* C3: every file that queueFile has added is eventually taken off the queue,
\* whatever queueFile, checkAndQueueModified and processVault calls interleave,
\* provided timers fire and every read and provider call settles.
C3_QueuedFileIsDequeued ==
    \A p \in Paths : (p \in Range(pq.queue)) ~> (p \notin Range(pq.queue))

\* C4, as the specification states it: the flag does not keep a queue drain
\* out of a full pass, so a processQueue() that finds the queue non-empty
\* while a pass is in flight (and no drain is) starts a drain.
C4_DrainStartsDuringPass ==
    (/\ \E i \in 1..MaxTasks : tasks[i].kind = "vault"
     /\ \A i \in 1..MaxTasks : tasks[i].kind # "drain"
     /\ ~QueueIsEmpty(pq))
    => \A ok \in BOOLEAN :
          \E i \in 1..MaxTasks : processQueue(World, ok).tasks[i].kind = "drain"

\* C4, amended: a queue drain and a full pass are never in flight together,
\* because processQueue and processVault test and set the same flag; the
\* flag is set exactly while one of the two is in flight.
C4_DrainExcludesPass ==
    /\ ~(\E i, j \in 1..MaxTasks : tasks[i].kind = "vault" /\ tasks[j].kind = "drain")
    /\ Cardinality({i \in 1..MaxTasks : tasks[i].kind \in {"vault", "drain"}}) <= 1
    /\ pq.isProcessing <=> (\E i \in 1..MaxTasks : tasks[i].kind \in {"vault", "drain"})

\* C4: a file was queued while a pass is in flight; it waits in the queue.
C4_Witness ==
    /\ \E i \in 1..MaxTasks : tasks[i].kind = "vault" /\ tasks[i].pc = "embed"
    /\ ~QueueIsEmpty(pq)

\* C5: processFile is idempotent on an unchanged document.  The execution that
\* is about to finish has embedded every chunk once, stores them under the
\* hash of the text and returns true; an execution that follows on the same
\* text returns false without reaching the provider and leaves the cache
\* entry, the dirty flag and the statistics as the first one left them.
C5_ProcessFileIdempotent ==
    \A i \in 1..MaxTasks :
        (tasks[i].pc = "meta" /\ vault[tasks[i].file].content = tasks[i].text) =>
            LET t == tasks[i]
                first == processFileMeta(World, i, t.text)
            IN
            /\ Len(t.vecs) = Len(chunk(t.text))
            /\ \A k \in 1..Len(t.vecs) : t.vecs[k].chunkId = chunk(t.text)[k]
            /\ first.res = "new"
            /\ CacheGet(first.w.cache, t.file, computeHash(t.text)) = [chunks |-> t.vecs]
            /\ \A skip \in BOOLEAN :
                 LET call == processFileCall(first.w, i, t.file, skip)
                     second == processFileText(call.w, i, t.text)
                 IN
                 /\ call.res = "suspend"
                 /\ second.res = "cached"
                 /\ second.w.cache = first.w.cache
                 /\ second.w.samples = first.w.samples

\* C5: a pass has finished in which processFile found a document indexed by
\* an earlier execution and returned false.
C5_Witness ==
    /\ notice # None
    /\ notice.msg = "Vault processed"
    /\ notice.cached > 0
    /\ \E p \in Paths : CacheHas(cache, p, computeHash(vault[p].content))

\* C6: no version of a document is indexed twice: no two executions of
\* processFile in flight have both gone to the provider for the same path and
\* the same content hash.
C6_NoVersionIndexedTwice ==
    \A i, j \in 1..MaxTasks :
        (/\ i # j
         /\ tasks[i].pc \in {"embed", "meta"}
         /\ tasks[j].pc \in {"embed", "meta"}
         /\ tasks[i].file = tasks[j].file)
        => computeHash(tasks[i].text) # computeHash(tasks[j].text)

\* C7: after any sequence of set, remove and clear, get(path, h) returns the
\* chunks of the last set for the path that no remove of the path and no
\* clear has followed, and only if that set stored h; otherwise null.
C7_GetReturnsLastSet ==
    \A p \in Paths, h \in Hashes :
        CacheGet(cache, p, h) =
            IF lastSet[p] # None /\ lastSet[p].hash = h
            THEN [chunks |-> lastSet[p].chunks]
            ELSE None

\* C7: the path's entry was set and saved under one hash and then set under
\* another, so get is asked, among others, for a hash an earlier set stored.
C7_Witness ==
    \E p \in Paths :
        /\ lastSet[p] # None
        /\ cache.disk[p] # None
        /\ cache.disk[p].fileHash # lastSet[p].hash

\* C8: a switch of the model destroys no entry cached before it: every entry
\* the cache holds when the model changes is still there after the change.
C8_SwitchKeepsEntries ==
    [][provider'.model # provider.model =>
         \A p \in Paths :
            cache.embeddings[p] # None => cache'.embeddings[p] = cache.embeddings[p]]_vars

\* C9: once a document is deleted and invalidate has run, and every operation
\* in flight has ended, the cache holds no entry for its path.
C9_NoEntryAfterDelete ==
    \A p \in Paths :
        (~vault[p].exists /\ \A i \in 1..MaxTasks : tasks[i].kind = "none")
        => cache.embeddings[p] = None

\* C10: a pass ends normally whatever fails per document: when the summary is
\* shown, every prefiltered document has been attempted once, in order, new
\* + cached + failed is their number, and what was embedded is on disk.
C10_PassAccountsForEveryFile ==
    (notice # None /\ notice.msg = "Vault processed") =>
        /\ notice.attempted = notice.files
        /\ notice.processed + notice.cached + notice.failed = Len(notice.files)
        /\ ~cache.isDirty
        /\ cache.disk = cache.embeddings

\* C10: a pass has ended normally in which one document failed and another
\* was embedded and saved.
C10_Witness ==
    /\ notice # None
    /\ notice.msg = "Vault processed"
    /\ notice.failed > 0
    /\ notice.processed > 0
    /\ \E p \in Paths : cache.disk[p] # None

\* C11, as the specification states it: the number of save() calls a pass
\* has issued when it shows its summary equals its number of batches.
C11_SavesEqualBatches ==
    (notice # None /\ notice.msg = "Vault processed") => notice.saves = notice.batches

\* C11, amended: while a pass processes the documents of batch b it has
\* called save() b - 1 times, once after the last document of each batch
\* before and never between two documents of a batch; it calls save() once
\* more after the last batch, so a pass of n batches issues n + 1 calls.
C11_SaveAfterEachBatchAndAtEnd ==
    /\ \A i \in 1..MaxTasks :
         (tasks[i].kind = "vault" /\ tasks[i].pc \in {"text", "embed", "meta"}) =>
             tasks[i].saves = tasks[i].b - 1
    /\ (notice # None /\ notice.msg = "Vault processed") =>
          notice.saves = notice.batches + 1

\* C11: a pass is at the second document of a batch; the first one is stored
\* in the cache and no save() has been called for it.
C11_Witness ==
    \E i \in 1..MaxTasks :
        /\ tasks[i].kind = "vault" /\ tasks[i].pc = "embed"
        /\ tasks[i].k = 2 /\ tasks[i].processed = 1
        /\ tasks[i].saves = 0
        /\ cache.isDirty


\* C12: with a provider, processBatch(items) attempts every item in array
\* order whatever failed before: while item k is processed the items
\* attempted are the first k and save() has not been called; when the batch
\* completes every item has been attempted, in order, and save() has been
\* called once.
C12_BatchAttemptsEveryItem ==
    /\ \A i \in 1..MaxTasks :
         (tasks[i].kind = "drain" /\ tasks[i].pc \in {"text", "embed", "meta"}) =>
             /\ tasks[i].attempted = SubSeq(tasks[i].files, 1, tasks[i].k)
             /\ tasks[i].saves = 0
    /\ (notice # None /\ notice.msg = "Processing complete") =>
          /\ notice.attempted = notice.files
          /\ notice.saves = 1
          /\ notice.processed + notice.cached <= Len(notice.files)

\* C12: the first item of a batch of two has failed (it counts neither as
\* new nor as cached) and the second one is being processed.
C12_Witness ==
    \E i \in 1..MaxTasks :
        /\ tasks[i].kind = "drain" /\ tasks[i].pc = "embed"
        /\ Len(tasks[i].files) = 2 /\ tasks[i].k = 2
        /\ tasks[i].processed + tasks[i].cached = 0

\* C13: a processVault() that is refused, for the flag or for the missing
\* provider, changes no engine state: the flag, the queue, the cache entries,
\* the dirty flag, the statistics, the timers and the operations in flight
\* are after the call what they were before it.
C13_RefusedPassChangesNothing ==
    [][notice' \in {[msg |-> "ALREADY_PROCESSING_VAULT"],
                    [msg |-> "NO_EMBEDDING_PROVIDER"]} =>
          /\ pq' = pq
          /\ cache' = cache
          /\ samples' = samples
          /\ timers' = timers
          /\ tasks' = tasks]_vars

\* C13: a processVault() has just been refused while a queue drain holds the
\* flag, and the flag is still set.
C13_Witness ==
    /\ notice = [msg |-> "ALREADY_PROCESSING_VAULT"]
    /\ \E i \in 1..MaxTasks : tasks[i].kind = "drain"
    /\ pq.isProcessing

\* C14: the processing flag is set exactly while a pass or a drain step is in
\* flight, and it is clear as soon as one has ended, normally (the summary,
\* the completion notice) or by an exception such as a failed save.
C14_FlagFollowsPassAndDrain ==
    /\ pq.isProcessing <=> (\E i \in 1..MaxTasks : tasks[i].kind \in {"vault", "drain"})
    /\ (notice # None
        /\ notice.msg \in {"Vault processed", "ERROR", "Processing complete"})
       => ~pq.isProcessing

\* C14: a pass has just ended by an exception (its save failed), and the flag
\* is clear.
C14_Witness ==
    /\ notice = [msg |-> "ERROR"]
    /\ ~pq.isProcessing
    /\ \A i \in 1..MaxTasks : tasks[i].kind \notin {"vault", "drain"}

\* C15: whatever calls came before and whatever the timestamps are, the next
\* checkForModifications returns a file exactly when an earlier call has
\* observed it and its timestamp is greater than the one recorded for it; a
\* file not observed before is recorded and not returned.
C15_ReportedIffObservedAndNewer ==
    \A f \in Paths :
        /\ IsModified(pq, mtime, f) <=>
               (f \in pq.observed /\ mtime[f] > pq.lastCheckedModTimes[f])
        /\ f \notin pq.observed =>
               RecordModTimes(pq, mtime, {f}).lastCheckedModTimes[f] = mtime[f]

\* C16: the queue never holds a file twice, and an add of a file that is
\* queued leaves the queue as it is (any other add appends the file).
C16_NoFileQueuedTwice ==
    /\ \A i, j \in 1..Len(pq.queue) : i # j => pq.queue[i] # pq.queue[j]
    /\ (notice # None /\ notice.msg = "add") =>
          pq.queue = IF notice.file \in Range(notice.before)
                     THEN notice.before ELSE Append(notice.before, notice.file)

\* C16: add has just been called for a file that was queued, next to another.
C16_Witness ==
    /\ notice # None
    /\ notice.msg = "add"
    /\ notice.file \in Range(notice.before)
    /\ Len(pq.queue) = 2

\* C17: remove(count) returns the first min(count, size) files in the order
\* of the queue, which is the order they were added in, and leaves the rest
\* queued in their order: what it returned followed by what is left is the
\* queue before the call.
C17_RemoveIsFifo ==
    (notice # None /\ notice.msg = "remove") =>
        /\ Len(notice.returned) = Min(notice.count, Len(notice.before))
        /\ notice.returned \o pq.queue = notice.before

\* C17: remove(1) has just taken the first of two queued files.
C17_Witness ==
    /\ notice # None
    /\ notice.msg = "remove"
    /\ notice.count = 1
    /\ Len(notice.before) = 2
    /\ notice.returned = <<notice.before[1]>>
    /\ pq.queue = <<notice.before[2]>>

\* C18: save() writes only when the cache is dirty, and a write that succeeds
\* clears the dirty flag; when the write fails save() throws, the dirty flag
\* stays set and the entries (and the file) are as before, so that the next
\* save() writes again.
C18_SaveWritesWhenDirty ==
    (notice # None /\ notice.msg = "cache.save") =>
        LET b == notice.before IN
        IF ~b.isDirty THEN cache = b /\ ~notice.threw
        ELSE IF notice.ok
        THEN /\ ~notice.threw
             /\ cache.disk = b.embeddings
             /\ cache.embeddings = b.embeddings
             /\ ~cache.isDirty
        ELSE /\ notice.threw
             /\ cache = b
             /\ cache.isDirty
             /\ CacheSave(cache, TRUE).disk = cache.embeddings

\* C18: a save() has just failed on a dirty cache whose entries differ from
\* the file.
C18_Witness ==
    /\ notice # None
    /\ notice.msg = "cache.save"
    /\ notice.threw
    /\ cache.isDirty
    /\ cache.disk # cache.embeddings

\* C19, as the specification states it: after any remove(path) or clear()
\* the targeted entries are absent and the cache is dirty.
C19_RemoveAndClearMarkDirty ==
    /\ (notice # None /\ notice.msg = "cache.remove") =>
          cache.embeddings[notice.path] = None /\ cache.isDirty
    /\ (notice # None /\ notice.msg = "cache.clear") =>
          cache.embeddings = createEmptyCache /\ cache.isDirty

\* C19, amended: after remove(path) the entry of path is absent and the other
\* entries are as before, and the cache is dirty if it was dirty or an entry
\* was removed (a remove of an absent path leaves the flag as it was); after
\* clear() no entry is left and the cache is dirty; a dirty cache is written
\* by the next save().
C19_RemoveMarksDirtyWhenEntryExisted ==
    /\ (notice # None /\ notice.msg = "cache.remove") =>
          LET b == notice.before IN
          /\ cache.embeddings = [b.embeddings EXCEPT ![notice.path] = None]
          /\ cache.isDirty <=> (b.isDirty \/ b.embeddings[notice.path] # None)
          /\ cache.disk = b.disk
    /\ (notice # None /\ notice.msg = "cache.clear") =>
          cache.embeddings = createEmptyCache /\ cache.isDirty
    /\ (notice # None /\ notice.msg \in {"cache.remove", "cache.clear"}
        /\ cache.isDirty) =>
          CacheSave(cache, TRUE).disk = cache.embeddings

\* C19: remove has just been called for a path without an entry on a cache
\* that was saved, and the cache is not dirty.
C19_Witness ==
    /\ notice # None
    /\ notice.msg = "cache.remove"
    /\ notice.before.embeddings[notice.path] = None
    /\ \E p \in Paths : cache.embeddings[p] # None
    /\ ~cache.isDirty

\* C20: initialize() never fails for what the cache file holds, and when the
\* file cannot be parsed or has not the expected structure the cache is empty
\* afterwards (no document, no chunk) and clean.
C20_BadFileLoadsEmpty ==
    (notice # None /\ notice.msg = "initialize" /\ notice.exists
     /\ ~WellFormed(notice.file))
    => /\ cache.embeddings = createEmptyCache
       /\ ~cache.isDirty

\* C21: the list search returns is non-increasing in similarity, holds only
\* results whose similarity is at least the threshold, and has at most limit
\* elements, whatever the cache holds and whatever the similarities are.
C21_SearchResultsRanked ==
    (notice # None /\ notice.msg = "search" /\ ~notice.threw) =>
        LET r == notice.results IN
        /\ \A k \in 1..(Len(r) - 1) : r[k].similarity >= r[k + 1].similarity
        /\ \A k \in 1..Len(r) : r[k].similarity >= notice.threshold
        /\ Len(r) <= notice.limit

\* C21: a search has met chunks below the threshold, has had more results
\* than the limit and has returned two of different similarity.
C21_Witness ==
    /\ notice # None
    /\ notice.msg = "search"
    /\ ~notice.threw
    /\ notice.chunks > notice.matched
    /\ notice.matched > notice.limit
    /\ Len(notice.results) = 2
    /\ notice.results[1].similarity > notice.results[2].similarity
    /\ notice.results[2].similarity = notice.threshold
\* C22 as stated: search throws when no provider is available and leaves the
\* cache as it was; with a provider and an empty cache it returns the empty
\* list and does not throw.
C22_EmptyCacheNeverThrows ==
    [][(notice' # None /\ notice'.msg = "search") =>
          /\ ~provider.ready => (notice'.threw /\ cache' = cache)
          /\ (provider.ready /\ cache.embeddings = createEmptyCache) =>
                (~notice'.threw /\ notice'.results = <<>>)]_vars

\* C22: search throws 'No embedding provider available' when no provider is
\* available, and only then, and leaves the cache as it was; with a provider
\* and an empty cache it returns the empty list, unless the embedding of the
\* query has failed, which search throws on.
C22_ThrowsWithoutProviderEmptyOnEmptyCache ==
    [][(notice' # None /\ notice'.msg = "search") =>
          /\ cache' = cache
          /\ (notice'.error = "No embedding provider available") = ~provider.ready
          /\ ~provider.ready => notice'.threw
          /\ (provider.ready /\ cache.embeddings = createEmptyCache) =>
                /\ notice'.results = <<>>
                /\ notice'.threw = (notice'.error = "embed")]_vars

\* C22: a search without a provider has thrown over a cache that holds
\* entries.
C22_Witness ==
    /\ notice # None
    /\ notice.msg = "search"
    /\ notice.threw
    /\ notice.error = "No embedding provider available"
    /\ ~provider.ready
    /\ cache.embeddings # createEmptyCache

\* C22: a search with a provider has returned the empty list from an empty
\* cache.
C22_WitnessEmpty ==
    /\ notice # None
    /\ notice.msg = "search"
    /\ ~notice.threw
    /\ provider.ready
    /\ cache.embeddings = createEmptyCache
    /\ notice.results = <<>>
\* C23: no result that findSimilar(doc) returns belongs to the source
\* document: every returned result has a path other than doc's.
C23_FindSimilarExcludesSource ==
    (notice # None /\ notice.msg = "findSimilar" /\ ~notice.threw) =>
        \A k \in 1..Len(notice.results) : notice.results[k].path # notice.file

\* C23: findSimilar has returned a result of another document while the
\* source document has two chunks in the cache.
C23_Witness ==
    /\ notice # None
    /\ notice.msg = "findSimilar"
    /\ ~notice.threw
    /\ Len(notice.results) >= 1
    /\ cache.embeddings[notice.file] # None
    /\ Len(cache.embeddings[notice.file].chunks) = 2
\* C24: a document of fewer than minWordCount words is embedded only by a
\* processFile called with skipMinWordCheck = true.  No call without the
\* override is at a provider.embed or behind it with such a text; on a cache
\* miss without the override processFile throws from the read, before any
\* provider call, and changes nothing; with the override it goes on to embed
\* the document, and once the embeddings and the metadata are there it stores
\* one vector per chunk under the hash of the text and returns true.
C24_ShortDocumentNeedsOverride ==
    \A i \in 1..MaxTasks :
        LET t == tasks[i] IN
        /\ (t.pc \in {"embed", "meta"} /\ countWords(t.text) < MinWordCount) => t.skip
        /\ t.pc = "text" =>
              \A r \in ReadOutcomes(vault, t.file) \ {0} :
                  (/\ countWords(r) < MinWordCount
                   /\ CacheGet(cache, t.file, computeHash(r)) = None) =>
                      LET c == processFileText(World, i, r) IN
                      IF ~t.skip
                      THEN c.res = "throw" /\ c.w = World
                      ELSE /\ c.res = "suspend"
                           /\ c.w.tasks[i].pc = "embed"
                           /\ c.w.tasks[i].text = r
                           /\ c.w.cache = cache
        /\ (t.pc = "meta" /\ t.skip /\ countWords(t.text) < MinWordCount) =>
              \A r \in ReadOutcomes(vault, t.file) \ {0} :
                  LET c == processFileMeta(World, i, r) IN
                  /\ c.res = "new"
                  /\ CacheGet(c.w.cache, t.file, computeHash(t.text)) # None
                  /\ Len(c.w.cache.embeddings[t.file].chunks) = Len(chunk(t.text))

\* C24: a processFile that findSimilar has called with the override has had
\* every chunk of a document of fewer than minWordCount words embedded.
C24_Witness ==
    \E i \in 1..MaxTasks :
        /\ tasks[i].kind = "similar"
        /\ tasks[i].pc = "meta"
        /\ tasks[i].skip
        /\ countWords(tasks[i].text) < MinWordCount
        /\ Len(tasks[i].vecs) = Len(chunk(tasks[i].text))
\* C25: every vector the cache holds was produced by the model that is
\* active now, whatever a switch of the model (switchModel, then
\* cache.clear) interleaves with.
C25_CachedVectorsOfActiveModel ==
    \A p \in Paths :
        cache.embeddings[p] # None =>
            \A k \in 1..Len(cache.embeddings[p].chunks) :
                cache.embeddings[p].chunks[k].model = provider.model
\* C26: NoteChunker.chunk returns at least one chunk for every note and
\* under all options, notes with headings of any level and with or without
\* text under them among them.
C26_AtLeastOneChunk ==
    (notice # None /\ notice.msg = "chunk") => Len(notice.chunks) >= 1
\* C27: the chunkIds of the chunks returned for one note are pairwise
\* distinct.
C27_ChunkIdsDistinct ==
    (notice # None /\ notice.msg = "chunk") =>
        \A j, k \in 1..Len(notice.chunks) :
            notice.chunks[j].chunkId = notice.chunks[k].chunkId => j = k

\* C28: a heading deeper than maxHeadingLevel neither splits nor ends a
\* section: the content of every section that buildSectionTree builds for a
\* heading is all the lines after the heading line up to the section's last
\* line, and so is the content of the chunk made of the section.
C28_DeepHeadingStaysInSection ==
    (notice # None /\ notice.msg = "chunk" /\ notice.strategy = "headings") =>
        LET ls == notice.content
            sections == buildSectionTree(ls, parseHeadings(ls),
                                         notice.options.maxHeadingLevel)
        IN \A k \in 1..Len(sections) :
              LET section == sections[k] IN
              section.heading # None =>
                 /\ section.contentLines =
                       SubSeq(ls, section.startLine + 2, section.endLine + 1)
                 /\ \A c \in 1..Len(notice.chunks) :
                       (/\ notice.chunks[c].parts = <<>>
                        /\ notice.chunks[c].startLine = section.startLine
                        /\ notice.chunks[c].endLine = section.endLine) =>
                          notice.chunks[c].wordCount =
                             countWordsIn(SubSeq(ls, section.startLine + 2,
                                                 section.endLine + 1))

\* C29: unless the note comes back as the single chunk of the fallback, the
\* line ranges of the chunks, in order, take in every line of text of the
\* note once: each range begins behind the one before it, and every line of
\* text is inside a range.
C29_RangesCoverEveryLineOnce ==
    (notice # None /\ notice.msg = "chunk"
       /\ notice.strategy \in {"headings", "paragraphs", "sentences"}) =>
        LET cs == notice.chunks IN
        /\ \A k \in 1..(Len(cs) - 1) : cs[k].endLine < cs[k + 1].startLine
        /\ \A n \in 0..(Len(notice.content) - 1) :
              notice.content[n + 1].kind = "text" =>
                 \E k \in 1..Len(cs) : cs[k].startLine <= n /\ n <= cs[k].endLine

\* C30: no chunk made by the grouping of paragraphs or of sentences has more
\* words than maxWords and one of the paragraphs or sentences in it, for any
\* maxWords, those below the overlap of 50 words among them.
C30_GroupWithinMaxWordsPlusOneUnit ==
    (notice # None /\ notice.msg = "chunk"
       /\ notice.strategy \in {"paragraphs", "sentences"}) =>
        \A k \in 1..Len(notice.chunks) :
            \E u \in 1..Len(notice.chunks[k].parts) :
                notice.chunks[k].wordCount
                   <= notice.options.maxWords + notice.chunks[k].parts[u]

\* C31: a note of fewer words than minWords comes back as exactly one chunk,
\* with the chunkId 'chunk-0', no headings and the word count of the note,
\* whatever headings, paragraphs and sentences it has; a note of blank lines
\* only comes back as one such chunk of 0 words under all options.
C31_BelowMinWordsOneChunk ==
    (notice # None /\ notice.msg = "chunk") =>
        LET ls == notice.content
            blank == \A n \in 1..Len(ls) : ls[n].kind = "blank"
        IN (countWordsIn(ls) < notice.options.minWords \/ blank) =>
              /\ Len(notice.chunks) = 1
              /\ notice.chunks[1].chunkId = <<"c", "h", "u", "n", "k", "-", "0">>
              /\ notice.chunks[1].headings = <<>>
              /\ notice.chunks[1].wordCount = countWordsIn(ls)
              /\ blank => notice.chunks[1].wordCount = 0

\* C31: chunk has returned for a note of fewer words than minWords that has
\* a heading with text under it, with the split at headings on.
C31_Witness ==
    /\ notice # None
    /\ notice.msg = "chunk"
    /\ notice.options.splitAtHeadings
    /\ countWordsIn(notice.content) < notice.options.minWords
    /\ Len(notice.content) >= 2
    /\ notice.content[1].kind = "heading"
    /\ notice.content[2].kind = "text"
    /\ Len(notice.chunks) = 1

\* C32 as stated: the batch size of a pass is the configured batchSize when
\* adaptive batching is off or fewer than 5 documents have been embedded, and
\* otherwise it is the adaptive size, which lies in 5..50 and is
\* clamp(floor(targetBatchTimeMs / avg), 5, 50) for every positive average.
C32_AdaptiveUnlessDisabledOrFewSamples ==
    (notice # None /\ notice.msg = "createBatches" /\ Len(notice.items) > 0) =>
        LET n == Len(notice.items)
            size == Len(notice.batches[1])
        IN IF ~notice.config.adaptiveBatching \/ notice.samplesCount < 5
           THEN size = Min(notice.config.batchSize, n)
           ELSE /\ \E b \in 5..50 : size = Min(b, n)
                /\ notice.avg > 0 =>
                      size = Min(Max(5, Min(50, 10000 \div notice.avg)), n)

\* C32: the batch size of a pass is the configured batchSize when adaptive
\* batching is off, when fewer than 5 documents have been embedded, or when
\* the average is 0 (nothing is divided then); otherwise it is
\* clamp(floor(targetBatchTimeMs / avg), 5, 50), which lies in 5..50.
C32_FixedWhenDisabledFewSamplesOrZeroAverage ==
    (notice # None /\ notice.msg = "createBatches" /\ Len(notice.items) > 0) =>
        LET n == Len(notice.items)
            size == Len(notice.batches[1])
            clamp == Max(5, Min(50, 10000 \div notice.avg))
        IN IF \/ ~notice.config.adaptiveBatching
              \/ notice.samplesCount < 5
              \/ notice.avg = 0
           THEN size = Min(notice.config.batchSize, n)
           ELSE /\ size = Min(clamp, n)
                /\ clamp \in 5..50

\* C32: the batches of a pass over more than 50 documents were built with
\* adaptive batching on, 5 samples or more, a configured size of 3 and an
\* average that gives a size strictly between 5 and 50.
C32_Witness ==
    /\ notice # None
    /\ notice.msg = "createBatches"
    /\ notice.config = [batchSize |-> 3, adaptiveBatching |-> TRUE]
    /\ notice.samplesCount >= 5
    /\ notice.avg = 250
    /\ Len(notice.items) = MaxItems
    /\ Len(notice.batches[1]) = 40

\* C33: processFile writes the cache once per document.  A call that waits
\* for provider.embed holds the vectors of the chunks before the one it
\* waits for, in chunk order and under their chunkIds, and has written
\* nothing: when the provider rejects, processFile throws and leaves the
\* cache entry, the dirty flag and the statistics as they are, and when it
\* resolves with chunks to go, likewise.  When the metadata are there, the
\* entry it stores has exactly one vector per chunk, in chunk order, each
\* under the chunkId of its chunk, and the cache is dirty.
C33_ProcessFileWritesOncePerDocument ==
    \A i \in 1..MaxTasks :
        LET t == tasks[i]
            chunks == chunk(t.text)
        IN
        /\ t.pc = "embed" =>
              /\ Len(t.vecs) < Len(chunks)
              /\ \A k \in 1..Len(t.vecs) : t.vecs[k].chunkId = chunks[k]
              /\ LET c == processFileEmbed(World, i, FALSE) IN
                    c.res = "throw" /\ c.w = World
              /\ LET c == processFileEmbed(World, i, TRUE) IN
                    /\ c.res = "suspend"
                    /\ c.w.cache = cache
                    /\ c.w.tasks[i].pc = "embed" => c.w.samples = samples
        /\ t.pc = "meta" =>
              /\ Len(t.vecs) = Len(chunks)
              /\ \A r \in ReadOutcomes(vault, t.file) \ {0} :
                    LET c == processFileMeta(World, i, r)
                        e == c.w.cache.embeddings[t.file]
                    IN /\ c.res = "new"
                       /\ e # None
                       /\ e.fileHash = computeHash(t.text)
                       /\ Len(e.chunks) = Len(chunks)
                       /\ \A k \in 1..Len(chunks) :
                             /\ e.chunks[k].chunkId = chunks[k]
                             /\ e.chunks[k].text = t.text
                       /\ c.w.cache.isDirty
                       /\ \A p \in Paths \ {t.file} :
                             c.w.cache.embeddings[p] = cache.embeddings[p]

\* C33: a processFile waits for the embedding of the second chunk of a
\* document of several chunks that has no entry in the cache, with the vector
\* of the first chunk in hand.
C33_Witness ==
    \E i \in 1..MaxTasks :
        /\ tasks[i].pc = "embed"
        /\ Len(tasks[i].vecs) = 1
        /\ Len(chunk(tasks[i].text)) >= 2
        /\ cache.embeddings[tasks[i].file] = None
\* C34: every entry of the cache is a snapshot of one version of its
\* document: there is one text of which the entry has the hash, the vectors
\* of the chunks and the word count of the metadata, whatever changes the
\* document while processFile waits.
C34_EntryIsSnapshotOfOneVersion ==
    \A p \in Paths :
        LET e == cache.embeddings[p] IN
        e # None =>
            \E c \in Contents :
                /\ e.fileHash = computeHash(c)
                /\ e.metadata.wordCount = countWords(c)
                /\ \A k \in 1..Len(e.chunks) : e.chunks[k].text = c

\* C35: search returns exactly the top of a reference ranking.  Among the
\* items of the scan, the candidates are those whose path has the folder as a
\* prefix (when a folder is given), whose entry shares a tag with the tag
\* filter (when it is given and not empty), whose document still exists and
\* whose similarity is at least the threshold.  A candidate comes before
\* another when its similarity is higher, or equal and it was scanned
\* earlier.  The result has min(limit, number of candidates) elements, and its
\* n-th element is the candidate with exactly n - 1 candidates before it.
C35_SearchIsTopOfReferenceRanking ==
    (notice # None /\ notice.msg = "rank") =>
        LET items == notice.items
            res == notice.results
            HasPrefix(str, pre) == \E n \in 0..Len(str) : SubSeq(str, 1, n) = pre
            Candidates ==
                {a \in 1..Len(items) :
                    /\ notice.folder # <<>> => HasPrefix(filePath(items[a].path), notice.folder)
                    /\ notice.tags # {} => items[a].tags \cap notice.tags # {}
                    /\ items[a].path # notice.gone
                    /\ items[a].similarity >= notice.threshold}
            Before(b, a) == \/ items[b].similarity > items[a].similarity
                            \/ items[b].similarity = items[a].similarity /\ b < a
            Rank_(a) == Cardinality({b \in Candidates : Before(b, a)})
        IN /\ Len(res) = Min(notice.limit, Cardinality(Candidates))
           /\ \A n \in 1..Len(res) :
                \E a \in Candidates :
                    /\ Rank_(a) = n - 1
                    /\ res[n] = [path |-> items[a].path, chunkId |-> items[a].chunkId,
                                 similarity |-> items[a].similarity]

\* a search under a folder and a tag filter that returns two results of
\* equal similarity, cut by the limit, with an item at or above the threshold
\* that the tag filter rejected
C35_Witness ==
    /\ notice # None /\ notice.msg = "rank"
    /\ notice.folder # <<>> /\ notice.tags # {}
    /\ notice.limit = 2 /\ Len(notice.results) = 2
    /\ notice.results[1].similarity = notice.results[2].similarity
    /\ Len(notice.items) > 2
    /\ \E a \in 1..Len(notice.items) :
         /\ notice.items[a].similarity >= notice.threshold
         /\ notice.items[a].tags \cap notice.tags = {}

\* C36: createBatches partitions its input in order.  With size the batch
\* size of the pass (the configured one, or the adaptive one), every batch
\* has at least one item, every batch but the last has exactly size items and
\* the last at most size, the k-th item of the j-th batch is item
\* (j - 1) * size + k of the input, the batches hold as many items as the
\* input (so their concatenation is the input), and processVault hands the
\* documents to processFile in the order of the input.
C36_BatchesPartitionInOrder ==
    (notice # None /\ notice.msg = "createBatches") =>
        LET items == notice.items
            bs == notice.batches
            size == IF \/ ~notice.config.adaptiveBatching
                       \/ notice.samplesCount < 5
                       \/ notice.avg = 0
                    THEN notice.config.batchSize
                    ELSE Max(5, Min(50, 10000 \div notice.avg))
        IN /\ (Len(bs) = 0) <=> (Len(items) = 0)
           /\ \A j \in 1..Len(bs) :
                /\ Len(bs[j]) > 0
                /\ Len(bs[j]) <= size
                /\ j < Len(bs) => Len(bs[j]) = size
                /\ \A k \in 1..Len(bs[j]) : bs[j][k] = items[(j - 1) * size + k]
           /\ Len(bs) > 0 => (Len(bs) - 1) * size + Len(bs[Len(bs)]) = Len(items)
           /\ notice.order = items

\* C36: a pass over 51 documents in 11 batches of the adaptive size 5, the
\* last of them with one document
C36_Witness ==
    /\ notice # None
    /\ notice.msg = "createBatches"
    /\ Len(notice.items) = MaxItems
    /\ Len(notice.batches) = 11
    /\ Len(notice.batches[1]) = 5
    /\ Len(notice.batches[11]) = 1
    /\ notice.order[MaxItems] = notice.items[MaxItems]

\* C37: the dirty flag never under-reports.  In every state of a cache that
\* was constructed without a file and then used through set, remove, clear
\* and save, entries that differ from what the file holds go with a set
\* flag; from every such state any set, a remove of an entry that exists and
\* clear leave the flag set; and a save() that meets a clear flag returns
\* without throwing, changes nothing and leaves the entries equal to the file.
C37_DirtyFlagNeverUnderReports ==
    /\ cache.embeddings # cache.disk => cache.isDirty
    /\ \A p \in Paths, chunks \in ChunkLists, h \in Hashes :
         CacheSet(cache, p, chunks, h, [wordCount |-> 0]).isDirty
    /\ \A p \in Paths :
         cache.embeddings[p] # None => CacheRemove(cache, p).isDirty
    /\ CacheClear(cache).isDirty
    /\ (notice # None /\ notice.msg = "cache.save" /\ ~notice.before.isDirty) =>
          /\ ~notice.threw
          /\ cache = notice.before
          /\ cache.embeddings = cache.disk

\* C37: a save() has returned without writing on a cache whose entries were
\* set and saved before
C37_Witness ==
    /\ notice # None
    /\ notice.msg = "cache.save"
    /\ ~notice.before.isDirty
    /\ \E p \in Paths : cache.embeddings[p] # None
    /\ cache.disk = cache.embeddings

\* C38: for a document that has a heading of a level up to maxHeadingLevel
\* and at least minWords words, the chunks processFile gets from the chunker
\* come from the heading strategy and one of them carries a heading
\* hierarchy that is not empty: the text handed to NoteChunker.chunk has the
\* document's headings.
C38_ProcessFileChunksByHeadings ==
    (/\ notice # None
     /\ notice.msg = "processFile.chunk"
     /\ \E n \in 1..Len(notice.content) :
          /\ notice.content[n].kind = "heading"
          /\ notice.content[n].level <= notice.options.maxHeadingLevel
     /\ countWordsIn(notice.content) >= notice.options.minWords
     /\ countWordsIn(notice.text) >= notice.options.minWords)
    => /\ notice.strategy = "headings"
       /\ \E k \in 1..Len(notice.chunks) : notice.chunks[k].headings # <<>>
       /\ parseHeadings(notice.text) # <<>>

\* C39: a queue-drain step consumes its batch whatever the outcome.  From
\* every state in which processQueue can start a drain, by a timer or at the
\* end of queueFile, the files it takes are off the queue when it returns to
\* its caller; and a file comes onto the queue only in a step that is a
\* call of queueFile for it (by a caller, or by checkAndQueueModified for a
\* file it found modified): no step of a drain, whether processFile failed,
\* the save failed or all went well, and no timer puts a file back.
C39_DrainConsumesItsBatch ==
    [][LET gained == Range(pq'.queue) \ Range(pq.queue) IN
       /\ (~pq.isProcessing /\ HasFree(tasks)) =>
            \A ok \in BOOLEAN :
               /\ Range(QueueTake(pq, settings.batchSize))
                     \cap Range(processQueue(World, ok).pq.queue) = {}
               /\ \A f \in Paths :
                     vault[f].exists =>
                        Range(QueueTake(QueueAdd(pq, f), settings.batchSize))
                           \cap Range(queueFile(World, f, ok).pq.queue) = {}
       /\ \/ gained = {}
          \/ \E p \in Paths : QueueFile(p) /\ gained = {p}
          \/ /\ CheckAndQueueModified
             /\ gained \subseteq {f \in Paths : IsModified(pq, mtime, f)}]_vars

\* C39: a drain of two files has ended with neither of them processed or
\* found cached, and neither of them is on the queue
C39_Witness ==
    /\ notice # None
    /\ notice.msg = "Processing complete"
    /\ Len(notice.files) = 2
    /\ notice.processed = 0
    /\ notice.cached = 0
    /\ Range(notice.files) \cap Range(pq.queue) = {}
    /\ ~pq.isProcessing

====
